---- MODULE Spec2Model ----
(***************************************************************************)
(* Model of the course-content playback and progress-tracking flow of      *)
(* src/courses/studentCourseList.jsx: the lesson-type resolver             *)
(* (inferLessonType), the selection dispatch of CourseDialog, the          *)
(* asynchronous completeLesson operation (handleLessonComplete) and the    *)
(* course list of StudentCourseList that it patches.                       *)
(*                                                                         *)
(* Strings are modelled as sequences of tokens (a token is an atomic run   *)
(* of characters); the JavaScript string operations used by the code       *)
(* (split, pop, toLowerCase, includes, startsWith) are defined on them.    *)
(* An absent / null / undefined / '' value is the empty sequence for a     *)
(* URL, "" for a string field, 0 for a timestamp and Null for an object.   *)
(***************************************************************************)
EXTENDS Integers, Sequences, FiniteSets, TLC

VARIABLES
    filters,            \* StudentCourseList: filters state
    bookmarks,          \* StudentCourseList: bookmarks state
    filteredCourses,    \* StudentCourseList: displayed course records
    selectedCourse,     \* StudentCourseList: record given to CourseDialog
    openCourseDialog,   \* StudentCourseList: dialog open flag
    selectedLesson,     \* CourseDialog: lesson with its detectedType
    selectedMedia,      \* CourseDialog: media given to the players
    selectedDocument,   \* CourseDialog: document given to DocumentViewer
    courseProgress,     \* CourseDialog: courseProgress state
    ops,                \* suspended executions of handleLessonComplete, in call order
    completeCalls,      \* backend: complete-lesson requests received, per lesson
    progressCalls,      \* backend: get-course-progress requests received
    tabsOpened,         \* browser: the URLs given to window.open
    now,                \* the clock read by new Date()
    inferIn,            \* resolver check: the lesson given to inferLessonType
    inferOut,           \* resolver check: the value it returned
    expandedModules,    \* CourseDialog: the module of the sidebar is expanded
    isSidebarOpen,      \* CourseDialog: isSidebarOpen state
    youTubePlayer,      \* the mounted YouTubePlayer (its state and timer), or Null
    mediaPlayer,        \* the mounted MediaPlayer (its state and video element), or Null
    documentViewer,     \* the mounted DocumentViewer (its state), or Null
    moduleIn,           \* module progress check: the module given to calculateModuleProgress
    moduleOut,          \* module progress check: the value it returned
    messaging,          \* the mounted Messaging screen (its state), or Null
    studentMessages,    \* the mounted StudentMessages screen (its state), or Null
    messageOps,         \* suspended executions of the messaging screens, in call order
    messageServer       \* backend: the user's messages and the requests received

vars == <<filters, bookmarks, filteredCourses, selectedCourse, openCourseDialog,
          selectedLesson, selectedMedia, selectedDocument, courseProgress,
          ops, completeCalls, progressCalls, tabsOpened, now, inferIn, inferOut,
          expandedModules, isSidebarOpen, youTubePlayer, mediaPlayer,
          documentViewer, moduleIn, moduleOut,
          messaging, studentMessages, messageOps, messageServer>>

dialogVars == <<selectedLesson, selectedMedia, selectedDocument, courseProgress>>
listVars == <<filters, bookmarks, filteredCourses, selectedCourse, openCourseDialog>>
apiVars == <<completeCalls, progressCalls>>
inferVars == <<inferIn, inferOut>>
sidebarVars == <<expandedModules, isSidebarOpen>>
playerVars == <<youTubePlayer, mediaPlayer, documentViewer>>
moduleVars == <<moduleIn, moduleOut>>
messagingVars == <<messaging, studentMessages, messageOps, messageServer>>
courseVars == <<filters, bookmarks, filteredCourses, selectedCourse,
                openCourseDialog, selectedLesson, selectedMedia,
                selectedDocument, courseProgress, ops, completeCalls,
                progressCalls, tabsOpened, now, inferIn, inferOut,
                expandedModules, isSidebarOpen, youTubePlayer, mediaPlayer,
                documentViewer, moduleIn, moduleOut>>

----------------------------------------------------------------------------
(* Bounds *)

MaxOps == 2         \* handleLessonComplete executions in one behaviour
MaxQuery == 2       \* query parameters of a URL drawn for the resolver check
MaxSeconds == 2     \* the longest duration, in seconds, a player reports
MaxLessons == 4     \* lessons of a module drawn for the module progress check
MaxMessages == 3    \* messages the backend holds for the user
MaxCalls == 4       \* requests of a messaging screen in one behaviour
RowsPerPage == 2    \* Messaging: rowsPerPage (10 in the source)

PageSize == 50      \* StudentMessages: page_size of its get-messages request

Null == [null |-> TRUE]
NoTime == 0
NotCalled == -1     \* the result variable of a function not yet applied

----------------------------------------------------------------------------
(* JavaScript string operations on token sequences *)

RECURSIVE Expand(_)
\* the characters of a URL: some tokens contain a '.' themselves
Expand(s) ==
    IF s = <<>> THEN <<>>
    ELSE LET h == Head(s)
             e == IF h = "youtube.com" THEN <<"youtube", ".", "com">>
                  ELSE IF h = "youtu.be" THEN <<"youtu", ".", "be">>
                  ELSE IF h = "v=1.2" THEN <<"v=1", ".", "2">>
                  ELSE IF h = "to=youtube.com" THEN <<"to=", "youtube", ".", "com">>
                  ELSE <<h>>
         IN e \o Expand(Tail(s))

\* s.includes(p)
Includes(s, p) ==
    \E i \in 0..(Len(s) - Len(p)) : SubSeq(s, i + 1, i + Len(p)) = p

\* s.split(sep).pop(): what follows the last sep, or s when there is none
AfterLast(s, sep) ==
    LET idx == {i \in 1..Len(s) : s[i] = sep}
    IN IF idx = {} THEN s
       ELSE LET m == CHOOSE i \in idx : \A j \in idx : j <= i
            IN SubSeq(s, m + 1, Len(s))

\* s.split(sep)[0]: what precedes the first sep, or s when there is none
BeforeFirst(s, sep) ==
    LET idx == {i \in 1..Len(s) : s[i] = sep}
    IN IF idx = {} THEN s
       ELSE LET m == CHOOSE i \in idx : \A j \in idx : i <= j
            IN SubSeq(s, 1, m - 1)

LowerTok(t) ==
    CASE t = "PDF" -> "pdf"
      [] t = "PPT" -> "ppt"
      [] t = "PPTX" -> "pptx"
      [] t = "DOC" -> "doc"
      [] t = "DOCX" -> "docx"
      [] t = "A" -> "a"
      [] t = "B" -> "b"
      [] t = "C" -> "c"
      [] t = "D" -> "d"
      [] t = "G" -> "g"
      [] t = "I" -> "i"
      [] t = "L" -> "l"
      [] t = "M" -> "m"
      [] t = "N" -> "n"
      [] t = "S" -> "s"
      [] OTHER -> t

\* s.toLowerCase()
ToLowerCase(s) == [i \in 1..Len(s) |-> LowerTok(s[i])]

\* the characters of the titles and search terms of the model
Chars(str) ==
    CASE str = "" -> <<>>
      [] str = "Biology" -> <<"B", "i", "o", "l", "o", "g", "y">>
      [] str = "Algebra" -> <<"A", "l", "g", "e", "b", "r", "a">>
      [] str = "Cells" -> <<"C", "e", "l", "l", "s">>
      [] str = "Sets" -> <<"S", "e", "t", "s">>
      [] str = "Intro" -> <<"I", "n", "t", "r", "o">>
      [] str = "DNA" -> <<"D", "N", "A">>
      [] str = "Maps" -> <<"M", "a", "p", "s">>
      [] str = "alg" -> <<"a", "l", "g">>
      [] str = "ALG" -> <<"A", "L", "G">>
      [] str = "dna" -> <<"d", "n", "a">>
      [] str = "set" -> <<"s", "e", "t">>
      [] str = "o" -> <<"o">>
      [] str = "zz" -> <<"z", "z">>

\* s.startsWith('http')
StartsWithHttp(s) == Len(s) > 0 /\ s[1] = "http"

----------------------------------------------------------------------------
(* Lesson-type resolver *)

\* lesson.content_url || lesson.content_file || ''
LessonUrl(lesson) ==
    IF lesson.content_url # <<>> THEN lesson.content_url ELSE lesson.content_file

IsYouTubeUrl(u) ==
    \/ Includes(Expand(u), <<"youtube", ".", "com">>)
    \/ Includes(Expand(u), <<"youtu", ".", "be">>)

\* url.split('.').pop().split('?')[0].toLowerCase()
UrlExt(u) == ToLowerCase(BeforeFirst(AfterLast(Expand(u), "."), "?"))

\* variant: the declared type is trusted before the URL is looked at
inferLessonType_TypeFirst(lesson) ==
    LET url == LessonUrl(lesson)
        ext == UrlExt(url)
    IN IF lesson.type # "" /\ lesson.type # "Unknown" /\ lesson.type # "unknown"
       THEN lesson.type
       ELSE IF url = <<>> THEN "unknown"
       ELSE IF IsYouTubeUrl(url) THEN "youtube"
       ELSE IF ext = <<"pdf">> THEN "pdf"
       ELSE IF ext = <<"ppt">> \/ ext = <<"pptx">> THEN "ppt"
       ELSE IF ext = <<"doc">> \/ ext = <<"docx">> THEN "doc"
       ELSE IF StartsWithHttp(Expand(url)) THEN "link"
       ELSE "unknown"

inferLessonType(lesson) ==
    LET url == LessonUrl(lesson)
        ext == UrlExt(url)
    IN IF url = <<>> THEN "unknown"
       ELSE IF IsYouTubeUrl(url) THEN "youtube"
       ELSE IF ext = <<"pdf">> THEN "pdf"
       ELSE IF ext = <<"ppt">> \/ ext = <<"pptx">> THEN "ppt"
       ELSE IF ext = <<"doc">> \/ ext = <<"docx">> THEN "doc"
       ELSE IF lesson.type # "" /\ lesson.type # "Unknown" /\ lesson.type # "unknown"
            THEN lesson.type
       ELSE IF StartsWithHttp(Expand(url)) THEN "link"
       ELSE "unknown"

----------------------------------------------------------------------------
(* Program data: the courses prop and the lessons / resources of a course *)

\* course.course.modules of the two valid courses; a lesson the backend
\* sends without is_completed has no such field
BiologyModules == <<
    [id |-> 1, title |-> "Cells",
     lessons |-> << [id |-> 1, title |-> "Intro", is_completed |-> TRUE],
                    [id |-> 2, title |-> "DNA"] >>] >>

AlgebraModules == <<
    [id |-> 2, title |-> "Sets",
     lessons |-> << [id |-> 3, title |-> "Maps", is_completed |-> FALSE],
                    [id |-> 4, title |-> "Intro", is_completed |-> TRUE] >>] >>

\* the courses prop of StudentCourseList (enrollment records of the backend);
\* valid = FALSE is a record without its course object
Courses == <<
    [id |-> 1, valid |-> TRUE, title |-> "Biology", progress |-> 0,
     started_at |-> NoTime, completed_at |-> NoTime, status |-> "not_started",
     enrolled_at |-> 1, bookmarked |-> FALSE, modules |-> BiologyModules],
    [id |-> 2, valid |-> TRUE, title |-> "Algebra", progress |-> 50,
     started_at |-> 1, completed_at |-> NoTime, status |-> "in_progress",
     enrolled_at |-> 0, bookmarked |-> TRUE, modules |-> AlgebraModules],
    [id |-> 3, valid |-> FALSE, title |-> "", progress |-> 0,
     started_at |-> NoTime, completed_at |-> NoTime, status |-> "",
     enrolled_at |-> 0, bookmarked |-> FALSE, modules |-> <<>>] >>

\* the lessons of course.course.modules, one per way of resolving
Lessons == <<
    [id |-> 1, type |-> "video", content_url |-> <<"http", "x", ".", "pdf">>,
     content_file |-> <<>>],
    [id |-> 2, type |-> "", content_url |-> <<>>,
     content_file |-> <<"x", ".", "PPTX">>],
    [id |-> 3, type |-> "unknown", content_url |-> <<"http", "x", ".", "docx", "?", "v=1">>,
     content_file |-> <<>>],
    [id |-> 4, type |-> "", content_url |-> <<"http", "x">>,
     content_file |-> <<>>],
    [id |-> 5, type |-> "video", content_url |-> <<"http", "x", ".", "mp4">>,
     content_file |-> <<>>],
    [id |-> 6, type |-> "video", content_url |-> <<"http", "youtube.com", "?", "v=1">>,
     content_file |-> <<>>],
    [id |-> 7, type |-> "video", content_url |-> <<>>,
     content_file |-> <<>>] >>

LessonIds == 1..Len(Lessons)

\* course.resources
Resources == <<
    [id |-> 1, type |-> "video", content_url |-> <<"http", "x", ".", "webm">>,
     content_file |-> <<>>],
    [id |-> 2, type |-> "link", content_url |-> <<"http", "x">>,
     content_file |-> <<>>],
    [id |-> 3, type |-> "pdf", content_url |-> <<"http", "x", ".", "pdf">>,
     content_file |-> <<>>] >>

ResourceIds == 1..Len(Resources)

\* the percentages get-course-progress may return
ProgressValues == {0, 50, 100}

StatusFilters == {"all", "in_progress", "completed", "not_started"}

\* what is typed into the search box
SearchTerms == {"", "alg", "ALG", "dna", "set", "o", "zz", "Intro"}

SortOrders == {"title", "progress", "enrolled_at"}

Views == {"all", "bookmarked"}

\* the filters state at mount
NoFilters == [status |-> "all", search |-> "", sort |-> "title", view |-> "all"]

----------------------------------------------------------------------------
(* StudentCourseList: transformation, filter pass, stats *)

\* the status derived by both transform blocks
DerivedStatus(course) ==
    IF course.completed_at # NoTime THEN "completed"
    ELSE IF course.progress > 0 THEN "in_progress"
    ELSE "not_started"

\* lesson.is_completed as a condition: an absent flag is falsy
IsCompleted(lesson) == "is_completed" \in DOMAIN lesson /\ lesson.is_completed

\* { ...lesson, is_completed: lesson.is_completed || false }
TransformLesson(lesson) ==
    [id |-> lesson.id, title |-> lesson.title, is_completed |-> IsCompleted(lesson)]

\* { ...module, lessons: (module.lessons || []).map(...) }
TransformModule(module) ==
    [id |-> module.id, title |-> module.title,
     lessons |-> [i \in 1..Len(module.lessons) |-> TransformLesson(module.lessons[i])]]

\* the record built from a valid raw course
TransformCourse(course) ==
    [courseId |-> course.id, title |-> course.title, progress |-> course.progress,
     started_at |-> course.started_at, completed_at |-> course.completed_at,
     enrolled_at |-> course.enrolled_at,
     modules |-> [i \in 1..Len(course.modules) |-> TransformModule(course.modules[i])],
     status |-> DerivedStatus(course)]

\* a.title.localeCompare(b.title) < 0
TitleRank(t) ==
    CASE t = "Algebra" -> 1
      [] t = "Biology" -> 2
      [] t = "Chemistry" -> 3
      [] OTHER -> 0

RECURSIVE InsertByTitle(_, _)
InsertByTitle(s, c) ==
    IF s = <<>> THEN <<c>>
    ELSE IF TitleRank(c.title) < TitleRank(Head(s).title)
         THEN <<c>> \o s
         ELSE <<Head(s)>> \o InsertByTitle(Tail(s), c)

RECURSIVE SortByTitle(_)
\* result.sort(...) with filters.sort = 'title' (stable)
SortByTitle(s) ==
    IF s = <<>> THEN <<>>
    ELSE InsertByTitle(SortByTitle(SubSeq(s, 1, Len(s) - 1)), s[Len(s)])

\* the comparator of result.sort is negative: a goes before b
SortsBefore(sort, a, b) ==
    IF sort = "title" THEN TitleRank(a.title) < TitleRank(b.title)
    ELSE IF sort = "progress" THEN b.progress - a.progress < 0
    ELSE IF sort = "enrolled_at" THEN b.enrolled_at - a.enrolled_at < 0
    ELSE FALSE

RECURSIVE InsertSorted(_, _, _)
InsertSorted(sort, s, c) ==
    IF s = <<>> THEN <<c>>
    ELSE IF SortsBefore(sort, c, Head(s))
         THEN <<c>> \o s
         ELSE <<Head(s)>> \o InsertSorted(sort, Tail(s), c)

RECURSIVE SortCourses(_, _)
\* result.sort(...) (stable)
SortCourses(sort, s) ==
    IF s = <<>> THEN <<>>
    ELSE InsertSorted(sort, SortCourses(sort, SubSeq(s, 1, Len(s) - 1)), s[Len(s)])

RECURSIVE SelectIndexed(_, _, _)
\* result.filter((course, index) => bookmarks[index]) from index n on; an
\* index past the end of bookmarks reads undefined
SelectIndexed(s, b, n) ==
    IF s = <<>> THEN <<>>
    ELSE (IF n <= Len(b) /\ b[n] THEN <<Head(s)>> ELSE <<>>)
         \o SelectIndexed(Tail(s), b, n + 1)

RECURSIVE MapTransform(_)
\* courses.map(transform).filter(course => course !== null)
MapTransform(s) ==
    IF s = <<>> THEN <<>>
    ELSE (IF Head(s).valid THEN <<TransformCourse(Head(s))>> ELSE <<>>)
         \o MapTransform(Tail(s))

StatusMatches(f, c) == f.status = "all" \/ c.status = f.status

\* title.toLowerCase().includes(searchLower)
TitleIncludes(title, searchLower) ==
    Includes(ToLowerCase(Chars(title)), searchLower)

\* variant: the lesson titles are not searched
SearchMatches_NoLessons(f, c) ==
    \/ f.search = ""
    \/ LET searchLower == ToLowerCase(Chars(f.search))
       IN \/ TitleIncludes(c.title, searchLower)
          \/ \E m \in 1..Len(c.modules) :
                TitleIncludes(c.modules[m].title, searchLower)

\* the search filter of the filter effect
SearchMatches(f, c) ==
    \/ f.search = ""
    \/ LET searchLower == ToLowerCase(Chars(f.search))
       IN \/ TitleIncludes(c.title, searchLower)
          \/ \E m \in 1..Len(c.modules) :
                \/ TitleIncludes(c.modules[m].title, searchLower)
                \/ \E l \in 1..Len(c.modules[m].lessons) :
                      TitleIncludes(c.modules[m].lessons[l].title, searchLower)

\* the effect on [courses, filters, bookmarks]
FilterPass(f, b) ==
    LET result == MapTransform(Courses)
        searched(c) == SearchMatches(f, c)
        keep(c) == StatusMatches(f, c)
        byStatus == SelectSeq(SelectSeq(result, searched), keep)
        byView == IF f.view = "bookmarked" THEN SelectIndexed(byStatus, b, 1)
                  ELSE byStatus
    IN IF f.sort = "title" THEN SortByTitle(byView) ELSE SortCourses(f.sort, byView)

\* setBookmarks(courses.map(course => course.bookmarked || false))
InitialBookmarks == [i \in 1..Len(Courses) |-> Courses[i].bookmarked]

CountStatus(s, st) == Cardinality({i \in 1..Len(s) : s[i].status = st})

\* the header stats, computed at render from the courses prop
stats ==
    [total |-> Len(Courses),
     inProgress |-> CountStatus(Courses, "in_progress"),
     completed |-> CountStatus(Courses, "completed"),
     notStarted |-> CountStatus(Courses, "not_started")]

\* variant: the patched record is built anew, its lessons not completed
handleCourseProgressUpdate_ResetLessons(prev, courseId, newProgress, newStatus, startedAt, completedAt) ==
    [i \in 1..Len(prev) |->
        IF prev[i].courseId = courseId
        THEN [prev[i] EXCEPT !.progress = newProgress, !.status = newStatus,
                             !.started_at = startedAt, !.completed_at = completedAt,
                             !.modules = [m \in 1..Len(@) |->
                                 [@[m] EXCEPT !.lessons = [l \in 1..Len(@) |->
                                     [@[l] EXCEPT !.is_completed = FALSE]]]]]
        ELSE prev[i]]

\* setFilteredCourses(prev => prev.map(...)) of handleCourseProgressUpdate
handleCourseProgressUpdate(prev, courseId, newProgress, newStatus, startedAt, completedAt) ==
    [i \in 1..Len(prev) |->
        IF prev[i].courseId = courseId
        THEN [prev[i] EXCEPT !.progress = newProgress, !.status = newStatus,
                             !.started_at = startedAt, !.completed_at = completedAt]
        ELSE prev[i]]

----------------------------------------------------------------------------
(* CourseDialog: selection dispatch *)

\* lesson.content_url || lesson.content_file
ContentOf(x) == IF x.content_url # <<>> THEN x.content_url ELSE x.content_file

\* variant: a lesson already sent to the backend is not sent again
StartLessonComplete_Dedup(k, lesson, course) ==
    IF k.calls[lesson.id] > 0 THEN k
    ELSE [ops |-> Append(k.ops, [course |-> course, lesson |-> lesson.id, live |-> TRUE,
                        pc |-> "awaitComplete"]),
          calls |-> [k.calls EXCEPT ![lesson.id] = @ + 1]]

\* the synchronous part of handleLessonComplete, on k = [ops, calls]: the
\* complete-lesson request for the lesson is issued and the execution
\* suspends on it.  course is the course prop its closure holds.
StartLessonComplete(k, lesson, course) ==
    [ops |-> Append(k.ops, [course |-> course, lesson |-> lesson.id, live |-> TRUE,
                        pc |-> "awaitComplete"]),
     calls |-> [k.calls EXCEPT ![lesson.id] = @ + 1]]

\* variant: 'link' is also listed with the document types
SelectedLessonEffect_LinkTwice(k, sel, course) ==
    LET k1 == IF sel # Null /\ sel.detectedType \in {"pdf", "ppt", "doc", "link"}
              THEN StartLessonComplete(k, sel, course) ELSE k
    IN IF sel # Null /\ sel.detectedType = "link"
       THEN StartLessonComplete(k1, sel, course) ELSE k1

\* useEffect(..., [selectedLesson]): runs after every change of selectedLesson
SelectedLessonEffect(k, sel, course) ==
    LET k1 == IF sel # Null /\ sel.detectedType \in {"pdf", "ppt", "doc"}
              THEN StartLessonComplete(k, sel, course) ELSE k
    IN IF sel # Null /\ sel.detectedType = "link"
       THEN StartLessonComplete(k1, sel, course) ELSE k1

RECURSIVE SumCalls(_, _)
SumCalls(calls, n) == IF n = 0 THEN 0 ELSE calls[n] + SumCalls(calls, n - 1)

\* the number of handleLessonComplete executions started so far
Started(calls) == SumCalls(calls, Len(Lessons))

\* Math.round(n / d * 100) for integers n >= 0 and d > 0: halves round up
RoundPercent(n, d) == (200 * n + d) \div (2 * d)

\* variant: the percentage is truncated
calculateModuleProgress_Floor(module) ==
    IF "lessons" \notin DOMAIN module \/ Len(module.lessons) = 0 THEN 0
    ELSE LET completedLessons ==
                 Cardinality({i \in 1..Len(module.lessons) : IsCompleted(module.lessons[i])})
         IN (100 * completedLessons) \div Len(module.lessons)

\* the percentage shown in the header of a module of course.course.modules
calculateModuleProgress(module) ==
    IF "lessons" \notin DOMAIN module \/ Len(module.lessons) = 0 THEN 0
    ELSE LET completedLessons ==
                 Cardinality({i \in 1..Len(module.lessons) : IsCompleted(module.lessons[i])})
         IN RoundPercent(completedLessons, Len(module.lessons))

\* the media / document state handleLessonSelect leaves for a detected type
LessonMedia(lesson, detectedType) ==
    IF detectedType = "video" \/ detectedType = "youtube"
    THEN [url |-> ContentOf(lesson), type |-> detectedType]
    ELSE Null

LessonDocument(lesson, detectedType) ==
    IF detectedType = "video" \/ detectedType = "youtube" THEN Null
    ELSE IF detectedType = "link" THEN Null
    ELSE IF detectedType \in {"pdf", "ppt", "doc"}
         THEN [url |-> ContentOf(lesson), type |-> detectedType]
    ELSE Null

LessonOpensTab(detectedType) ==
    ~(detectedType = "video" \/ detectedType = "youtube") /\ detectedType = "link"

----------------------------------------------------------------------------
(* The players and the viewer CourseDialog mounts *)

\* the condition under which CourseDialog renders the YouTubePlayer
YouTubePlayerShown(sel, media) ==
    /\ sel # Null
    /\ sel.detectedType = "youtube"
    /\ media # Null
    /\ media.type = "youtube"

\* the condition under which CourseDialog renders the MediaPlayer
MediaPlayerShown(sel, media) ==
    /\ sel # Null
    /\ sel.detectedType = "video"
    /\ media # Null
    /\ media.type # "youtube"

\* the condition under which CourseDialog renders the inline iframe of a pdf,
\* PowerPoint or Word lesson
InlineDocumentShown(sel) ==
    /\ sel # Null
    /\ sel.detectedType \in {"pdf", "ppt", "doc"}
    /\ ContentOf(sel) # <<>>

\* the condition under which CourseDialog renders the DocumentViewer
DocumentViewerShown(sel, doc) ==
    /\ sel # Null
    /\ sel.detectedType # "video"
    /\ sel.detectedType # "youtube"
    /\ doc # Null

\* the state of a YouTubePlayer after its mount; timerRef tells whether the
\* interval is set
YouTubePlayerMounted ==
    [playedSeconds |-> 0, isPlaying |-> FALSE, duration |-> 0, timerRef |-> FALSE]

\* playedSeconds >= duration && duration > 0
ReachedDuration(yt) == yt.playedSeconds >= yt.duration /\ yt.duration > 0

\* a run of the effect on [playedSeconds, duration, onComplete], on
\* k = [ops, calls]: the cleanup of the previous run clears the interval,
\* then the body calls onComplete, which is handleLessonComplete(sel)
YouTubePlayerEffect(k, yt, sel, course) ==
    [k |-> IF ReachedDuration(yt) THEN StartLessonComplete(k, sel, course) ELSE k,
     yt |-> [yt EXCEPT !.timerRef = FALSE]]

\* a render of CourseDialog, seen from the YouTubePlayer: it is unmounted,
\* mounted, or it gets a new onComplete function, which is a dependency of
\* its effect
RenderYouTubePlayer(k, yt, sel, media, course) ==
    IF ~YouTubePlayerShown(sel, media) THEN [k |-> k, yt |-> Null]
    ELSE IF yt = Null THEN [k |-> k, yt |-> YouTubePlayerMounted]
    ELSE YouTubePlayerEffect(k, yt, sel, course)

\* variant: a mount starts with the completion overlay
MediaPlayerMounted_Completed(media) ==
    [playing |-> FALSE, progress |-> 0, duration |-> 0, completed |-> TRUE,
     src |-> media.url, currentTime |-> 0, paused |-> TRUE, onEndedCalls |-> 0]

\* the state of a MediaPlayer after its mount (its effect on [open] included),
\* with that of its <video> element (src, currentTime, paused); onEndedCalls
\* counts the calls of the onEnded prop by this instance
MediaPlayerMounted(media) ==
    [playing |-> FALSE, progress |-> 0, duration |-> 0, completed |-> FALSE,
     src |-> media.url, currentTime |-> 0, paused |-> TRUE, onEndedCalls |-> 0]

\* a render of CourseDialog, seen from the MediaPlayer: it is unmounted,
\* mounted, or kept with its state; a new src makes the <video> element load
\* the new resource
RenderMediaPlayer(mp, sel, media) ==
    IF ~MediaPlayerShown(sel, media) THEN Null
    ELSE IF mp = Null THEN MediaPlayerMounted(media)
    ELSE IF mp.src # media.url
         THEN [mp EXCEPT !.src = media.url, !.currentTime = 0, !.paused = TRUE,
                         !.duration = 0]
    ELSE mp

\* encodeURIComponent on the tokens of the model: "http" stands for
\* 'https://', and ':', '/', '?' and '=' are escaped
EncodeURIComponent(u) ==
    [i \in 1..Len(u) |->
        CASE u[i] = "http" -> "https%3A%2F%2F"
          [] u[i] = "?" -> "%3F"
          [] u[i] = "v=1" -> "v%3D1"
          [] u[i] = "v=1.2" -> "v%3D1.2"
          [] u[i] = "to=youtube.com" -> "to%3Dyoutube.com"
          [] OTHER -> u[i]]

\* `https://view.officeapps.live.com/op/embed.aspx?src=${encodeURIComponent(url)}`
OfficeViewerUrl(u) ==
    <<"https://view.officeapps.live.com/op/embed.aspx?src=">> \o EncodeURIComponent(u)

OfficeTypes == {"doc", "docx", "ppt", "pptx"}

\* the state of a DocumentViewer at its mount: no error is "", no fileUrl <<>>
DocumentViewerMounted == [loading |-> TRUE, error |-> "", fileUrl |-> <<>>]

\* the effect of the DocumentViewer on [open, document, fileUrl], with
\* open = true; its state updates are applied together
DocumentViewerEffect(dv, document) ==
    IF document.url = <<>> \/ document.type = ""
    THEN [dv EXCEPT !.error = "Invalid document data", !.loading = FALSE]
    ELSE IF IsYouTubeUrl(document.url)
    THEN [dv EXCEPT !.error = "YouTube links should be viewed in the media player.",
                    !.loading = FALSE]
    ELSE IF document.type = "pdf"
    THEN [loading |-> FALSE, error |-> "", fileUrl |-> document.url]
    ELSE IF document.type \in OfficeTypes
    THEN [loading |-> FALSE, error |-> "", fileUrl |-> OfficeViewerUrl(document.url)]
    ELSE [dv EXCEPT !.error = "This file type cannot be loaded directly.",
                    !.loading = FALSE]

\* what renderViewer returns: the panel, the src of its iframe and the href of
\* its external link
renderViewer(dv, document) ==
    IF document.url = <<>> \/ document.type = ""
    THEN [panel |-> "invalid", src |-> <<>>, href |-> <<>>]
    ELSE IF dv.loading THEN [panel |-> "loading", src |-> <<>>, href |-> <<>>]
    ELSE IF dv.error # "" THEN [panel |-> "error", src |-> <<>>, href |-> document.url]
    ELSE IF document.type = "pdf" \/ document.type \in OfficeTypes
    THEN [panel |-> "iframe", src |-> dv.fileUrl, href |-> <<>>]
    ELSE [panel |-> "download", src |-> <<>>, href |-> document.url]

\* a render of CourseDialog, seen from the DocumentViewer: it is unmounted,
\* or mounted or given the document, and its effect runs
RenderDocumentViewer(dv, sel, doc) ==
    IF ~DocumentViewerShown(sel, doc) THEN Null
    ELSE DocumentViewerEffect(IF dv = Null THEN DocumentViewerMounted ELSE dv, doc)

----------------------------------------------------------------------------
(* CourseDialog: the handlers *)

\* inferLessonType(lesson) of each lesson of the course
DetectedTypes == [l \in LessonIds |-> inferLessonType(Lessons[l])]

\* a lesson item of the sidebar is clicked.  (The click needs the sidebar
\* open and the module expanded; the specifications that have the two toggles
\* state that with the action.)  The render that follows mounts and unmounts
\* the players and the viewer; the effects of the children run before the
\* effect of CourseDialog.
handleLessonSelect(l) ==
    LET lesson == Lessons[l]
        detectedType == DetectedTypes[l]
        lessonWithType == [id |-> lesson.id, type |-> lesson.type,
                           content_url |-> lesson.content_url,
                           content_file |-> lesson.content_file,
                           detectedType |-> detectedType]
        media == LessonMedia(lesson, detectedType)
        doc == LessonDocument(lesson, detectedType)
        r == RenderYouTubePlayer([ops |-> ops, calls |-> completeCalls],
                                 youTubePlayer, lessonWithType, media, selectedCourse)
        k == SelectedLessonEffect(r.k, lessonWithType, selectedCourse)
    IN /\ openCourseDialog
       /\ Started(k.calls) <= MaxOps
       /\ selectedLesson' = lessonWithType
       /\ selectedMedia' = media
       /\ selectedDocument' = doc
       /\ tabsOpened' = IF LessonOpensTab(detectedType)
                        THEN tabsOpened \cup {ContentOf(lesson)} ELSE tabsOpened
       /\ ops' = k.ops
       /\ completeCalls' = k.calls
       /\ youTubePlayer' = r.yt
       /\ mediaPlayer' = RenderMediaPlayer(mediaPlayer, lessonWithType, media)
       /\ documentViewer' = RenderDocumentViewer(documentViewer, lessonWithType, doc)
       /\ UNCHANGED <<courseProgress, progressCalls, now>>
       /\ UNCHANGED listVars
       /\ UNCHANGED <<inferVars, sidebarVars, moduleVars, messagingVars>>

ResourceIsMedia(resource) ==
    resource.type = "video" \/ IsYouTubeUrl(resource.content_url)

\* variant: the media branch forgets setSelectedDocument(null)
ResourceSelection_KeepDocument(resource, media, doc) ==
    IF ResourceIsMedia(resource)
    THEN <<[url |-> ContentOf(resource),
            type |-> IF IsYouTubeUrl(resource.content_url) THEN "youtube" ELSE "video"],
           doc, FALSE>>
    ELSE IF resource.type = "link"
    THEN <<media, doc, TRUE>>
    ELSE <<Null, [url |-> ContentOf(resource), type |-> resource.type], FALSE>>

\* the state handleResourceSelect leaves: <<media, document, tab opened>>
ResourceSelection(resource, media, doc) ==
    IF ResourceIsMedia(resource)
    THEN <<[url |-> ContentOf(resource),
            type |-> IF IsYouTubeUrl(resource.content_url) THEN "youtube" ELSE "video"],
           Null, FALSE>>
    ELSE IF resource.type = "link"
    THEN <<media, doc, TRUE>>
    ELSE <<Null, [url |-> ContentOf(resource), type |-> resource.type], FALSE>>

\* a resource item is clicked: the resources are rendered in the lesson
\* content area, that is only with a selected lesson.  A link resource sets
\* no state, so nothing is rendered again.
handleResourceSelect(resource) ==
    LET res == ResourceSelection(resource, selectedMedia, selectedDocument)
        k0 == [ops |-> ops, calls |-> completeCalls]
        r == IF res[3] THEN [k |-> k0, yt |-> youTubePlayer]
             ELSE RenderYouTubePlayer(k0, youTubePlayer, selectedLesson, res[1],
                                      selectedCourse)
    IN /\ openCourseDialog
       /\ selectedLesson # Null
       /\ Started(r.k.calls) <= MaxOps
       /\ selectedMedia' = res[1]
       /\ selectedDocument' = res[2]
       /\ tabsOpened' = IF res[3] THEN tabsOpened \cup {resource.content_url}
                        ELSE tabsOpened
       /\ ops' = r.k.ops
       /\ completeCalls' = r.k.calls
       /\ youTubePlayer' = r.yt
       /\ mediaPlayer' = RenderMediaPlayer(mediaPlayer, selectedLesson, res[1])
       /\ documentViewer' = RenderDocumentViewer(documentViewer, selectedLesson, res[2])
       /\ UNCHANGED <<selectedLesson, courseProgress, progressCalls, now>>
       /\ UNCHANGED listVars
       /\ UNCHANGED <<inferVars, sidebarVars, moduleVars, messagingVars>>

\* the modal MediaPlayer is rendered
MediaPlayerRendered ==
    /\ openCourseDialog
    /\ selectedLesson # Null
    /\ selectedLesson.detectedType = "video"
    /\ selectedMedia # Null
    /\ selectedMedia.type # "youtube"

\* the DocumentViewer is rendered
DocumentViewerRendered ==
    /\ openCourseDialog
    /\ selectedLesson # Null
    /\ selectedLesson.detectedType # "video"
    /\ selectedLesson.detectedType # "youtube"
    /\ selectedDocument # Null

\* onClose of the MediaPlayer
MediaPlayerClose ==
    /\ MediaPlayerRendered
    /\ selectedMedia' = Null
    /\ mediaPlayer' = Null
    /\ UNCHANGED <<selectedLesson, selectedDocument, courseProgress, ops, tabsOpened, now>>
    /\ UNCHANGED <<youTubePlayer, documentViewer>>
    /\ UNCHANGED apiVars
    /\ UNCHANGED listVars
    /\ UNCHANGED <<inferVars, sidebarVars, moduleVars, messagingVars>>

\* onClose of the DocumentViewer
DocumentViewerClose ==
    /\ DocumentViewerRendered
    /\ selectedDocument' = Null
    /\ documentViewer' = Null
    /\ UNCHANGED <<selectedLesson, selectedMedia, courseProgress, ops, tabsOpened, now>>
    /\ UNCHANGED <<youTubePlayer, mediaPlayer>>
    /\ UNCHANGED apiVars
    /\ UNCHANGED listVars
    /\ UNCHANGED <<inferVars, sidebarVars, moduleVars, messagingVars>>

\* the executions of an unmounted CourseDialog keep running, but their
\* setCourseProgress no longer reaches a mounted component
Unmounted(o) == [i \in 1..Len(o) |-> [o[i] EXCEPT !.live = FALSE]]

\* the close button of the dialog, with onClose = handleClose of the list:
\* selectedCourse becomes null, which unmounts the CourseDialog
handleDialogClose ==
    /\ openCourseDialog
    /\ selectedLesson' = Null
    /\ selectedMedia' = Null
    /\ selectedDocument' = Null
    /\ courseProgress' = 0
    /\ openCourseDialog' = FALSE
    /\ selectedCourse' = Null
    /\ ops' = Unmounted(ops)
    /\ expandedModules' = FALSE
    /\ isSidebarOpen' = TRUE
    /\ youTubePlayer' = Null
    /\ mediaPlayer' = Null
    /\ documentViewer' = Null
    /\ UNCHANGED <<filters, bookmarks, filteredCourses, tabsOpened, now>>
    /\ UNCHANGED apiVars
    /\ UNCHANGED <<inferVars, moduleVars, messagingVars>>

\* a course card is opened; the dialog overlay covers the list while open.
\* The CourseDialog mounts with useState(course.progress || 0).
handleOpenCourse(i) ==
    /\ ~openCourseDialog
    /\ i \in 1..Len(filteredCourses)
    /\ selectedCourse' = filteredCourses[i]
    /\ openCourseDialog' = TRUE
    /\ selectedLesson' = Null
    /\ selectedMedia' = Null
    /\ selectedDocument' = Null
    /\ courseProgress' = filteredCourses[i].progress
    /\ expandedModules' = FALSE
    /\ isSidebarOpen' = TRUE
    /\ youTubePlayer' = Null
    /\ mediaPlayer' = Null
    /\ documentViewer' = Null
    /\ UNCHANGED <<filters, bookmarks, filteredCourses, ops, tabsOpened, now>>
    /\ UNCHANGED apiVars
    /\ UNCHANGED <<inferVars, moduleVars, messagingVars>>

\* variant: the filter pass keeps the displayed record of a course it had
handleFilterChange_KeepPatched(key, value) ==
    /\ ~openCourseDialog
    /\ value # filters[key]
    /\ filters' = [filters EXCEPT ![key] = value]
    /\ filteredCourses' =
          LET result == FilterPass(filters', bookmarks)
          IN [j \in 1..Len(result) |->
                IF \E n \in 1..Len(filteredCourses) :
                      filteredCourses[n].courseId = result[j].courseId
                THEN filteredCourses[CHOOSE n \in 1..Len(filteredCourses) :
                         filteredCourses[n].courseId = result[j].courseId]
                ELSE result[j]]
    /\ UNCHANGED <<bookmarks, selectedCourse, openCourseDialog, ops, tabsOpened, now>>
    /\ UNCHANGED apiVars
    /\ UNCHANGED dialogVars
    /\ UNCHANGED <<inferVars, sidebarVars, playerVars, moduleVars, messagingVars>>

\* a filter control of the list is changed; the filter effect then runs
handleFilterChange(key, value) ==
    /\ ~openCourseDialog
    /\ value # filters[key]
    /\ filters' = [filters EXCEPT ![key] = value]
    /\ filteredCourses' = FilterPass(filters', bookmarks)
    /\ UNCHANGED <<bookmarks, selectedCourse, openCourseDialog, ops, tabsOpened, now>>
    /\ UNCHANGED apiVars
    /\ UNCHANGED dialogVars
    /\ UNCHANGED <<inferVars, sidebarVars, playerVars, moduleVars, messagingVars>>

\* bookmarked={bookmarks[index]} of the card at position j of the displayed
\* list (positions from 1); undefined is falsy
CardBookmarked(b, j) == j <= Len(b) /\ b[j]

\* the bookmark button of the card at position index of the displayed list
\* (positions from 1); the filter effect then runs
handleBookmark(index) ==
    /\ ~openCourseDialog
    /\ index \in 1..Len(filteredCourses)
    /\ bookmarks' = [i \in 1..(IF index > Len(bookmarks) THEN index ELSE Len(bookmarks)) |->
                        IF i = index THEN ~(i <= Len(bookmarks) /\ bookmarks[i])
                        ELSE i <= Len(bookmarks) /\ bookmarks[i]]
    /\ filteredCourses' = FilterPass(filters, bookmarks')
    /\ UNCHANGED <<filters, selectedCourse, openCourseDialog, ops, tabsOpened, now>>
    /\ UNCHANGED apiVars
    /\ UNCHANGED dialogVars
    /\ UNCHANGED <<inferVars, sidebarVars, playerVars, moduleVars, messagingVars>>

----------------------------------------------------------------------------
(* CourseDialog: the asynchronous remainder of handleLessonComplete *)

\* the values handleLessonComplete hands to onCourseProgressUpdate, from the
\* course prop of its closure, the returned progress and the clock
StatusUpdate(course, newProgress, t) ==
    IF newProgress = 100
    THEN [newStatus |-> "completed", startedAt |-> course.started_at,
          completedAt |-> t]
    ELSE IF newProgress > 0 /\ course.started_at = NoTime
    THEN [newStatus |-> "in_progress", startedAt |-> t,
          completedAt |-> course.completed_at]
    ELSE [newStatus |-> course.status, startedAt |-> course.started_at,
          completedAt |-> course.completed_at]

ReadsClock(course, newProgress) ==
    newProgress = 100 \/ (newProgress > 0 /\ course.started_at = NoTime)

\* the executions left when execution i has returned
Without(o, i) == SubSeq(o, 1, i - 1) \o SubSeq(o, i + 1, Len(o))

\* what the resolution of the complete-lesson request does, on
\* k = [ops, calls]: execution i issues the get-course-progress request
\* and suspends on it
AfterCompleteResolved(k, i) ==
    [ops |-> [k.ops EXCEPT ![i].pc = "awaitProgress"],
     calls |-> k.calls + 1]

\* variant: only the request is guarded; the execution goes on to the fetch
AfterRejected_FetchAnyway(k, i) ==
    [ops |-> [k.ops EXCEPT ![i].pc = "awaitProgress"], calls |-> k.calls + 1]

\* what a rejection does, on k = [ops, calls]: the catch block of
\* execution i logs to the console and the execution returns
AfterRejected(k, i) ==
    [ops |-> Without(k.ops, i), calls |-> k.calls]

\* await coursesAPI.completeLesson(...) resolves
CompleteLessonResolved(i) ==
    /\ i \in 1..Len(ops)
    /\ ops[i].pc = "awaitComplete"
    /\ LET k == AfterCompleteResolved([ops |-> ops, calls |-> progressCalls], i)
       IN /\ ops' = k.ops
          /\ progressCalls' = k.calls
    /\ UNCHANGED <<completeCalls, tabsOpened, now>>
    /\ UNCHANGED dialogVars
    /\ UNCHANGED listVars
    /\ UNCHANGED <<inferVars, sidebarVars, playerVars, moduleVars, messagingVars>>

\* await coursesAPI.completeLesson(...) rejects: control goes to catch
CompleteLessonRejected(i) ==
    /\ i \in 1..Len(ops)
    /\ ops[i].pc = "awaitComplete"
    /\ LET k == AfterRejected([ops |-> ops, calls |-> progressCalls], i)
       IN /\ ops' = k.ops
          /\ progressCalls' = k.calls
    /\ UNCHANGED <<completeCalls, tabsOpened, now>>
    /\ UNCHANGED dialogVars
    /\ UNCHANGED listVars
    /\ UNCHANGED <<inferVars, sidebarVars, playerVars, moduleVars, messagingVars>>

\* variant: the response of an execution of a closed dialog is dropped
GetCourseProgressResolved_Cancelled(i, p) ==
    /\ i \in 1..Len(ops)
    /\ ops[i].pc = "awaitProgress"
    /\ LET course == ops[i].course
           u == StatusUpdate(course, p, now)
           k0 == [ops |-> Without(ops, i), calls |-> completeCalls]
           r == IF openCourseDialog
                THEN RenderYouTubePlayer(k0, youTubePlayer, selectedLesson,
                                         selectedMedia, selectedCourse)
                ELSE [k |-> k0, yt |-> youTubePlayer]
       IN /\ Started(r.k.calls) <= MaxOps
          /\ courseProgress' = IF ops[i].live THEN p ELSE courseProgress
          /\ filteredCourses' = IF ops[i].live
                                THEN handleCourseProgressUpdate(filteredCourses,
                                         course.courseId, p, u.newStatus, u.startedAt,
                                         u.completedAt)
                                ELSE filteredCourses
          /\ now' = IF ReadsClock(course, p) THEN now + 1 ELSE now
          /\ ops' = r.k.ops
          /\ completeCalls' = r.k.calls
          /\ youTubePlayer' = r.yt
    /\ UNCHANGED <<filters, bookmarks, selectedCourse, openCourseDialog>>
    /\ UNCHANGED <<selectedLesson, selectedMedia, selectedDocument, tabsOpened>>
    /\ UNCHANGED <<progressCalls, mediaPlayer, documentViewer>>
    /\ UNCHANGED <<inferVars, sidebarVars, moduleVars, messagingVars>>

\* await coursesAPI.getCourseProgress(...) resolves with progress p; the
\* execution runs to its end.  setFilteredCourses stores a new array, so the
\* list renders again, and with it an open CourseDialog.
GetCourseProgressResolved(i, p) ==
    /\ i \in 1..Len(ops)
    /\ ops[i].pc = "awaitProgress"
    /\ LET course == ops[i].course
           u == StatusUpdate(course, p, now)
           k0 == [ops |-> Without(ops, i), calls |-> completeCalls]
           r == IF openCourseDialog
                THEN RenderYouTubePlayer(k0, youTubePlayer, selectedLesson,
                                         selectedMedia, selectedCourse)
                ELSE [k |-> k0, yt |-> youTubePlayer]
       IN /\ Started(r.k.calls) <= MaxOps
          /\ courseProgress' = IF ops[i].live THEN p ELSE courseProgress
          /\ filteredCourses' = handleCourseProgressUpdate(filteredCourses,
                 course.courseId, p, u.newStatus, u.startedAt, u.completedAt)
          /\ now' = IF ReadsClock(course, p) THEN now + 1 ELSE now
          /\ ops' = r.k.ops
          /\ completeCalls' = r.k.calls
          /\ youTubePlayer' = r.yt
    /\ UNCHANGED <<filters, bookmarks, selectedCourse, openCourseDialog>>
    /\ UNCHANGED <<selectedLesson, selectedMedia, selectedDocument, tabsOpened>>
    /\ UNCHANGED <<progressCalls, mediaPlayer, documentViewer>>
    /\ UNCHANGED <<inferVars, sidebarVars, moduleVars, messagingVars>>

\* variant: the catch block rolls the dialog progress back to the course prop
GetCourseProgressRejected_Rollback(i) ==
    /\ i \in 1..Len(ops)
    /\ ops[i].pc = "awaitProgress"
    /\ ops' = Without(ops, i)
    /\ courseProgress' = IF ops[i].live THEN ops[i].course.progress ELSE courseProgress
    /\ UNCHANGED <<selectedLesson, selectedMedia, selectedDocument>>
    /\ UNCHANGED <<completeCalls, progressCalls, tabsOpened, now>>
    /\ UNCHANGED listVars
    /\ UNCHANGED <<inferVars, sidebarVars, playerVars, moduleVars, messagingVars>>

\* await coursesAPI.getCourseProgress(...) rejects: control goes to catch
GetCourseProgressRejected(i) ==
    /\ i \in 1..Len(ops)
    /\ ops[i].pc = "awaitProgress"
    /\ LET k == AfterRejected([ops |-> ops, calls |-> progressCalls], i)
       IN /\ ops' = k.ops
          /\ progressCalls' = k.calls
    /\ UNCHANGED <<completeCalls, tabsOpened, now>>
    /\ UNCHANGED dialogVars
    /\ UNCHANGED listVars
    /\ UNCHANGED <<inferVars, sidebarVars, playerVars, moduleVars, messagingVars>>

----------------------------------------------------------------------------
(* CourseDialog: the sidebar *)

\* the header of the module is clicked; CourseDialog renders again
toggleModule ==
    LET r == RenderYouTubePlayer([ops |-> ops, calls |-> completeCalls],
                                 youTubePlayer, selectedLesson, selectedMedia,
                                 selectedCourse)
    IN /\ openCourseDialog
       /\ isSidebarOpen
       /\ Started(r.k.calls) <= MaxOps
       /\ expandedModules' = ~expandedModules
       /\ ops' = r.k.ops
       /\ completeCalls' = r.k.calls
       /\ youTubePlayer' = r.yt
       /\ UNCHANGED <<isSidebarOpen, mediaPlayer, documentViewer, progressCalls,
                      tabsOpened, now>>
       /\ UNCHANGED dialogVars
       /\ UNCHANGED listVars
       /\ UNCHANGED <<inferVars, moduleVars, messagingVars>>

\* one of the two sidebar-toggle buttons is clicked: setIsSidebarOpen(false)
\* with the sidebar open, setIsSidebarOpen(true) with it closed
setIsSidebarOpen(open) ==
    LET r == RenderYouTubePlayer([ops |-> ops, calls |-> completeCalls],
                                 youTubePlayer, selectedLesson, selectedMedia,
                                 selectedCourse)
    IN /\ openCourseDialog
       /\ open = ~isSidebarOpen
       /\ Started(r.k.calls) <= MaxOps
       /\ isSidebarOpen' = open
       /\ ops' = r.k.ops
       /\ completeCalls' = r.k.calls
       /\ youTubePlayer' = r.yt
       /\ UNCHANGED <<expandedModules, mediaPlayer, documentViewer, progressCalls,
                      tabsOpened, now>>
       /\ UNCHANGED dialogVars
       /\ UNCHANGED listVars
       /\ UNCHANGED <<inferVars, moduleVars, messagingVars>>

----------------------------------------------------------------------------
(* YouTubePlayer *)

\* the embedded player is ready and reports its duration d > 0: setDuration
\* changes a dependency of the effect, which runs
onReady(d) ==
    /\ youTubePlayer # Null
    /\ youTubePlayer.duration = 0
    /\ LET r == YouTubePlayerEffect([ops |-> ops, calls |-> completeCalls],
                                    [youTubePlayer EXCEPT !.duration = d],
                                    selectedLesson, selectedCourse)
       IN /\ Started(r.k.calls) <= MaxOps
          /\ youTubePlayer' = r.yt
          /\ ops' = r.k.ops
          /\ completeCalls' = r.k.calls
    /\ UNCHANGED <<mediaPlayer, documentViewer, progressCalls, tabsOpened, now>>
    /\ UNCHANGED dialogVars
    /\ UNCHANGED listVars
    /\ UNCHANGED <<inferVars, sidebarVars, moduleVars, messagingVars>>

\* the embedded player, once ready, reports that it plays: the interval is
\* set unless one is set already
onPlay ==
    /\ youTubePlayer # Null
    /\ youTubePlayer.duration > 0
    /\ youTubePlayer' = [youTubePlayer EXCEPT !.isPlaying = TRUE, !.timerRef = TRUE]
    /\ UNCHANGED <<mediaPlayer, documentViewer, ops, tabsOpened, now>>
    /\ UNCHANGED apiVars
    /\ UNCHANGED dialogVars
    /\ UNCHANGED listVars
    /\ UNCHANGED <<inferVars, sidebarVars, moduleVars, messagingVars>>

\* the embedded player reports a pause: the interval is cleared
onPause ==
    /\ youTubePlayer # Null
    /\ youTubePlayer.isPlaying
    /\ youTubePlayer' = [youTubePlayer EXCEPT !.isPlaying = FALSE, !.timerRef = FALSE]
    /\ UNCHANGED <<mediaPlayer, documentViewer, ops, tabsOpened, now>>
    /\ UNCHANGED apiVars
    /\ UNCHANGED dialogVars
    /\ UNCHANGED listVars
    /\ UNCHANGED <<inferVars, sidebarVars, moduleVars, messagingVars>>

\* the interval fires: setPlayedSeconds(prev => prev + 1) changes a
\* dependency of the effect, which runs
TimerTick ==
    /\ youTubePlayer # Null
    /\ youTubePlayer.timerRef
    /\ youTubePlayer.playedSeconds < MaxSeconds
    /\ LET r == YouTubePlayerEffect([ops |-> ops, calls |-> completeCalls],
                                    [youTubePlayer EXCEPT !.playedSeconds = @ + 1],
                                    selectedLesson, selectedCourse)
       IN /\ Started(r.k.calls) <= MaxOps
          /\ youTubePlayer' = r.yt
          /\ ops' = r.k.ops
          /\ completeCalls' = r.k.calls
    /\ UNCHANGED <<mediaPlayer, documentViewer, progressCalls, tabsOpened, now>>
    /\ UNCHANGED dialogVars
    /\ UNCHANGED listVars
    /\ UNCHANGED <<inferVars, sidebarVars, moduleVars, messagingVars>>

----------------------------------------------------------------------------
(* MediaPlayer, with a <video> element *)

\* the <video> element has loaded the metadata of its resource, of duration d
handleLoadedMetadata(d) ==
    /\ mediaPlayer # Null
    /\ mediaPlayer.duration = 0
    /\ mediaPlayer' = [mediaPlayer EXCEPT !.duration = d]
    /\ UNCHANGED <<youTubePlayer, documentViewer, ops, tabsOpened, now>>
    /\ UNCHANGED apiVars
    /\ UNCHANGED dialogVars
    /\ UNCHANGED listVars
    /\ UNCHANGED <<inferVars, sidebarVars, moduleVars, messagingVars>>

\* the play / pause button, a click on the video or the space key: play() on
\* an element that has ended starts again from the beginning
handlePlayPause ==
    /\ mediaPlayer # Null
    /\ mediaPlayer' =
          IF mediaPlayer.playing
          THEN [mediaPlayer EXCEPT !.paused = TRUE, !.playing = FALSE]
          ELSE [mediaPlayer EXCEPT
                   !.paused = FALSE, !.playing = TRUE,
                   !.currentTime = IF mediaPlayer.duration > 0
                                      /\ mediaPlayer.currentTime = mediaPlayer.duration
                                   THEN 0 ELSE @]
    /\ UNCHANGED <<youTubePlayer, documentViewer, ops, tabsOpened, now>>
    /\ UNCHANGED apiVars
    /\ UNCHANGED dialogVars
    /\ UNCHANGED listVars
    /\ UNCHANGED <<inferVars, sidebarVars, moduleVars, messagingVars>>

\* the state handleTimeUpdate leaves, the element being at time t (progress
\* in whole percents)
handleTimeUpdate(mp, t) ==
    [mp EXCEPT !.currentTime = t,
               !.progress = (t * 100) \div mp.duration,
               !.completed = @ \/ (mp.duration > 0 /\ t >= mp.duration - 1)]

\* the element reaches the end of its resource, on k = [ops, calls]: it
\* pauses, and its onEnded handler calls the onEnded prop, which is
\* handleLessonComplete(sel)
VideoEnded(k, mp, sel, course) ==
    [k |-> StartLessonComplete(k, sel, course),
     mp |-> [mp EXCEPT !.paused = TRUE, !.playing = FALSE, !.completed = TRUE,
                       !.onEndedCalls = @ + 1]]

\* the playing element advances by a second and fires timeupdate; at the end
\* of the resource it fires ended as well
VideoTimeUpdate ==
    /\ mediaPlayer # Null
    /\ ~mediaPlayer.paused
    /\ mediaPlayer.duration > 0
    /\ mediaPlayer.currentTime < mediaPlayer.duration
    /\ LET k0 == [ops |-> ops, calls |-> completeCalls]
           mp == handleTimeUpdate(mediaPlayer, mediaPlayer.currentTime + 1)
           r == IF mp.currentTime = mp.duration
                THEN VideoEnded(k0, mp, selectedLesson, selectedCourse)
                ELSE [k |-> k0, mp |-> mp]
       IN /\ Started(r.k.calls) <= MaxOps
          /\ mediaPlayer' = r.mp
          /\ ops' = r.k.ops
          /\ completeCalls' = r.k.calls
    /\ UNCHANGED <<youTubePlayer, documentViewer, progressCalls, tabsOpened, now>>
    /\ UNCHANGED dialogVars
    /\ UNCHANGED listVars
    /\ UNCHANGED <<inferVars, sidebarVars, moduleVars, messagingVars>>

\* the Replay button of the completion overlay; the seek to 0 fires
\* timeupdate
Replay ==
    /\ mediaPlayer # Null
    /\ mediaPlayer.completed
    /\ mediaPlayer' =
          LET mp == [mediaPlayer EXCEPT !.currentTime = 0, !.playing = FALSE,
                                        !.progress = 0, !.completed = FALSE]
          IN IF mp.duration > 0 THEN handleTimeUpdate(mp, 0) ELSE mp
    /\ UNCHANGED <<youTubePlayer, documentViewer, ops, tabsOpened, now>>
    /\ UNCHANGED apiVars
    /\ UNCHANGED dialogVars
    /\ UNCHANGED listVars
    /\ UNCHANGED <<inferVars, sidebarVars, moduleVars, messagingVars>>

----------------------------------------------------------------------------
(* The specifications of the list and its dialog.  The selection state of  *)
(* the dialog (media, document) and the completion flow (executions,       *)
(* backend calls, list records) only meet in handleLessonSelect, so they   *)
(* are explored by two specifications over the same state: Spec runs the   *)
(* completion flow with every lesson selection, SpecSelect the selection   *)
(* dispatch with the resources and the viewers.                            *)

\* no messaging screen is mounted
NoMessaging ==
    /\ messaging = Null
    /\ studentMessages = Null
    /\ messageOps = <<>>
    /\ messageServer = Null

FirstTime == 2      \* the clock at start, later than the timestamps of Courses

Init ==
    /\ filters = NoFilters
    /\ bookmarks = InitialBookmarks
    /\ filteredCourses = FilterPass(NoFilters, InitialBookmarks)
    /\ selectedCourse = Null
    /\ openCourseDialog = FALSE
    /\ selectedLesson = Null
    /\ selectedMedia = Null
    /\ selectedDocument = Null
    /\ courseProgress = 0
    /\ ops = <<>>
    /\ completeCalls = [l \in LessonIds |-> 0]
    /\ progressCalls = 0
    /\ tabsOpened = {}
    /\ now = FirstTime
    /\ inferIn = Lessons[1]
    /\ inferOut = ""
    /\ expandedModules = FALSE
    /\ isSidebarOpen = TRUE
    /\ youTubePlayer = Null
    /\ mediaPlayer = Null
    /\ documentViewer = Null
    /\ moduleIn = [id |-> 1]
    /\ moduleOut = NotCalled
    /\ NoMessaging

\* one lesson per way through the completion flow: the pdf lesson, the link
\* lesson, and the mp4, YouTube and empty lessons, which start no execution
SpecLessons == {1, 4, 5, 6, 7}

Next ==
    \/ \E i \in 1..Len(Courses) : handleOpenCourse(i)
    \/ \E l \in SpecLessons : handleLessonSelect(l)
    \/ handleDialogClose
    \/ \E st \in StatusFilters : handleFilterChange("status", st)
    \/ \E i \in 1..MaxOps : CompleteLessonResolved(i)
    \/ \E i \in 1..MaxOps : CompleteLessonRejected(i)
    \/ \E i \in 1..MaxOps, p \in ProgressValues : GetCourseProgressResolved(i, p)
    \/ \E i \in 1..MaxOps : GetCourseProgressRejected(i)

Spec == Init /\ [][Next]_vars

\* the pdf lesson and the pptx lesson: each selection starts an execution
RaceLessons == {1, 2}

\* The specification of the executions of one open dialog: document lessons
\* are selected and every request is answered; nothing is rejected and the
\* dialog is not closed.
NextRace ==
    \/ \E i \in 1..Len(Courses) : handleOpenCourse(i)
    \/ \E l \in RaceLessons : handleLessonSelect(l)
    \/ \E i \in 1..MaxOps : CompleteLessonResolved(i)
    \/ \E i \in 1..MaxOps, p \in ProgressValues : GetCourseProgressResolved(i, p)

SpecRace == Init /\ [][NextRace]_vars

NextSelect ==
    \/ \E i \in 1..Len(Courses) : handleOpenCourse(i)
    \/ \E l \in LessonIds : handleLessonSelect(l)
    \/ \E r \in ResourceIds : handleResourceSelect(Resources[r])
    \/ MediaPlayerClose
    \/ DocumentViewerClose
    \/ handleDialogClose

SpecSelect == Init /\ [][NextSelect]_vars

\* The specification of the YouTube lesson: the pdf lesson and the YouTube
\* lesson are selected, the embedded player reports its events, and the
\* dialog is rendered again by its sidebar and by the progress updates.
YouTubeSpecLessons == {1, 6}

NextYouTube ==
    \/ \E i \in 1..Len(Courses) : handleOpenCourse(i)
    \/ \E l \in YouTubeSpecLessons :
          isSidebarOpen /\ expandedModules /\ handleLessonSelect(l)
    \/ toggleModule
    \/ \E open \in BOOLEAN : setIsSidebarOpen(open)
    \/ \E d \in 1..MaxSeconds : onReady(d)
    \/ onPlay
    \/ onPause
    \/ TimerTick
    \/ handleDialogClose
    \/ \E i \in 1..MaxOps : CompleteLessonResolved(i)
    \/ \E i \in 1..MaxOps : CompleteLessonRejected(i)
    \/ \E i \in 1..MaxOps, p \in ProgressValues : GetCourseProgressResolved(i, p)
    \/ \E i \in 1..MaxOps : GetCourseProgressRejected(i)

SpecYouTube == Init /\ [][NextYouTube]_vars

\* the interval of a browser fires as long as it is set
SpecYouTubeFair == SpecYouTube /\ WF_vars(TimerTick)

\* the pdf lesson and the mp4 lesson
MediaSpecLessons == {1, 5}

\* The specification of the native video: the lessons and the resources
\* are selected and the <video> element of the MediaPlayer reports its events.
NextMedia ==
    \/ \E i \in 1..Len(Courses) : handleOpenCourse(i)
    \/ \E l \in MediaSpecLessons : handleLessonSelect(l)
    \/ \E r \in ResourceIds : handleResourceSelect(Resources[r])
    \/ \E d \in 1..MaxSeconds : handleLoadedMetadata(d)
    \/ handlePlayPause
    \/ VideoTimeUpdate
    \/ Replay
    \/ MediaPlayerClose
    \/ handleDialogClose

SpecMedia == Init /\ [][NextMedia]_vars

----------------------------------------------------------------------------
(* The specification of the course list: filters and bookmarks *)

NextList ==
    \/ \E st \in StatusFilters : handleFilterChange("status", st)
    \/ \E term \in SearchTerms : handleFilterChange("search", term)
    \/ \E so \in SortOrders : handleFilterChange("sort", so)
    \/ \E v \in Views : handleFilterChange("view", v)
    \/ \E index \in 1..Len(Courses) : handleBookmark(index)

SpecList == Init /\ [][NextList]_vars

----------------------------------------------------------------------------
(* The specification of the module progress on drawn modules *)

\* a lesson as the backend sends it: with or without is_completed
DrawnLessons == {[id |-> 1], [id |-> 1, is_completed |-> TRUE],
                 [id |-> 1, is_completed |-> FALSE]}

\* a module without lessons field, and the modules of up to n lessons
DrawnModules(n) ==
    {[id |-> 1]} \cup
    {[id |-> 1, lessons |-> ls] : ls \in UNION {[1..k -> DrawnLessons] : k \in 0..n}}

InitModule ==
    /\ filters = NoFilters
    /\ bookmarks = InitialBookmarks
    /\ filteredCourses = FilterPass(NoFilters, InitialBookmarks)
    /\ selectedCourse = Null
    /\ openCourseDialog = FALSE
    /\ selectedLesson = Null
    /\ selectedMedia = Null
    /\ selectedDocument = Null
    /\ courseProgress = 0
    /\ ops = <<>>
    /\ completeCalls = [l \in LessonIds |-> 0]
    /\ progressCalls = 0
    /\ tabsOpened = {}
    /\ now = FirstTime
    /\ inferIn = Lessons[1]
    /\ inferOut = ""
    /\ expandedModules = FALSE
    /\ isSidebarOpen = TRUE
    /\ youTubePlayer = Null
    /\ mediaPlayer = Null
    /\ documentViewer = Null
    /\ moduleIn \in DrawnModules(MaxLessons)
    /\ moduleOut = NotCalled
    /\ NoMessaging

\* the sidebar is rendered: calculateModuleProgress is applied to the module
ModuleProgress ==
    /\ moduleOut = NotCalled
    /\ moduleOut' = calculateModuleProgress(moduleIn)
    /\ UNCHANGED moduleIn
    /\ UNCHANGED messagingVars
    /\ UNCHANGED <<ops, tabsOpened, now>>
    /\ UNCHANGED apiVars
    /\ UNCHANGED dialogVars
    /\ UNCHANGED listVars
    /\ UNCHANGED <<inferVars, sidebarVars, playerVars>>

NextModule == ModuleProgress

SpecModule == InitModule /\ [][NextModule]_vars

----------------------------------------------------------------------------
(* The specification of the resolver on drawn lessons *)

\* The drawn URLs are scheme, stem, file extension and query string:
\* "http" stands for 'https://', "x" for a stem without '.', and the query
\* parameters are 'v=1', 'v=1.2' and 'to=youtube.com'.
UrlSchemes == {<<>>, <<"http">>}
UrlStems == {<<"x">>, <<"youtube.com">>, <<"youtu.be">>}
UrlExtensions == {<<>>, <<".", "pdf">>, <<".", "PDF">>, <<".", "ppt">>, <<".", "pptx">>,
                  <<".", "doc">>, <<".", "DOCX">>, <<".", "mp4">>}
QueryParams == {"v=1", "v=1.2", "to=youtube.com"}
UrlQueries(n) == {<<>>} \cup {<<"?">> \o q : q \in UNION {[1..k -> QueryParams] : k \in 1..n}}

\* the absent URL and the composed ones
DrawnUrls(n) ==
    {<<>>} \cup
    {s \o h \o e \o q : s \in UrlSchemes, h \in UrlStems, e \in UrlExtensions,
                         q \in UrlQueries(n)}

DeclaredTypes == {"", "unknown", "Unknown", "video"}

InitInfer ==
    /\ filters = NoFilters
    /\ bookmarks = InitialBookmarks
    /\ filteredCourses = FilterPass(NoFilters, InitialBookmarks)
    /\ selectedCourse = Null
    /\ openCourseDialog = FALSE
    /\ selectedLesson = Null
    /\ selectedMedia = Null
    /\ selectedDocument = Null
    /\ courseProgress = 0
    /\ ops = <<>>
    /\ completeCalls = [l \in LessonIds |-> 0]
    /\ progressCalls = 0
    /\ tabsOpened = {}
    /\ now = FirstTime
    /\ \E u \in DrawnUrls(MaxQuery), t \in DeclaredTypes, asFile \in BOOLEAN :
          inferIn = [id |-> 1, type |-> t,
                     content_url |-> IF asFile THEN <<>> ELSE u,
                     content_file |-> IF asFile THEN u ELSE <<>>]
    /\ inferOut = ""
    /\ expandedModules = FALSE
    /\ isSidebarOpen = TRUE
    /\ youTubePlayer = Null
    /\ mediaPlayer = Null
    /\ documentViewer = Null
    /\ moduleIn = [id |-> 1]
    /\ moduleOut = NotCalled
    /\ NoMessaging

\* the resolver is applied to the drawn lesson
Infer ==
    /\ inferOut = ""
    /\ inferOut' = inferLessonType(inferIn)
    /\ UNCHANGED inferIn
    /\ UNCHANGED <<ops, tabsOpened, now>>
    /\ UNCHANGED apiVars
    /\ UNCHANGED dialogVars
    /\ UNCHANGED listVars
    /\ UNCHANGED <<sidebarVars, playerVars, moduleVars, messagingVars>>

NextInfer == Infer

SpecInfer == InitInfer /\ [][NextInfer]_vars

----------------------------------------------------------------------------
(* The specification of the document viewer on drawn resources *)

\* the lesson without content: its resources are what the viewer is given
ViewerSpecLessons == {7}

\* resource.type of a resource that is neither a video nor a link
ViewerTypes == {"", "pdf", "doc", "docx", "ppt", "pptx", "image"}

\* the query strings of up to n parameters of a file URL
FileQueries(n) ==
    {<<>>} \cup
    {<<"?">> \o q : q \in UNION {[1..k -> {"v=1", "to=youtube.com"}] : k \in 1..n}}

\* resource.content_file: a file on a host, with a query string
DrawnFiles(n) ==
    {<<"http">> \o h \o <<".", "pdf">> \o q :
        h \in {<<"x">>, <<"youtube.com">>}, q \in FileQueries(n)}

\* course.resources as the backend may send them: a file, a URL or neither
DrawnResources(n) ==
    {[id |-> 1, type |-> t, content_url |-> <<>>, content_file |-> f] :
        t \in ViewerTypes, f \in DrawnFiles(n) \cup {<<>>}}
    \cup
    {[id |-> 1, type |-> t, content_url |-> <<"http", "x", ".", "docx">>,
      content_file |-> <<>>] : t \in ViewerTypes}

NextViewer ==
    \/ \E i \in 1..Len(Courses) : handleOpenCourse(i)
    \/ \E l \in ViewerSpecLessons : handleLessonSelect(l)
    \/ \E resource \in DrawnResources(MaxQuery) : handleResourceSelect(resource)
    \/ DocumentViewerClose
    \/ handleDialogClose

SpecViewer == Init /\ [][NextViewer]_vars

----------------------------------------------------------------------------
(* The messaging screens: Messaging (paginated, with the push channel) and *)
(* StudentMessages (one page of 50, no push channel).  One of them is      *)
(* mounted.  The backend keeps the user's messages newest first; a         *)
(* get-messages response carries the messages of the requested page, which *)
(* the screens store as they come, and their total count.                  *)

MessageIds == 1..MaxMessages
NoMessage == 0       \* expandedMessage: null

DropLast(s) == IF Len(s) = 0 THEN <<>> ELSE SubSeq(s, 1, Len(s) - 1)

\* prev.map(m => m.id === id ? { ...m, is_read: true } : m)
WithRead(msgs, id) ==
    [j \in 1..Len(msgs) |-> IF msgs[j].id = id
                            THEN [msgs[j] EXCEPT !.is_read = TRUE]
                            ELSE msgs[j]]

\* messages.find(m => m.id === messageId) exists and is unread
FoundUnread(msgs, messageId) ==
    \E j \in 1..Len(msgs) :
        /\ msgs[j].id = messageId
        /\ \A h \in 1..(j - 1) : msgs[h].id # messageId
        /\ ~msgs[j].is_read

DisplayedIds(msgs) == {msgs[j].id : j \in 1..Len(msgs)}

\* backend: the page of a get-messages request and get-unread-count
ServerPage(server, page, size) ==
    SubSeq(server.messages, (page - 1) * size + 1,
           IF page * size < Len(server.messages) THEN page * size
           ELSE Len(server.messages))

ServerUnread(server) ==
    Cardinality({j \in 1..Len(server.messages) : ~server.messages[j].is_read})

\* backend: a request is received
Received(server) == [server EXCEPT !.requests = @ + 1]

\* backend: mark-as-read(id) succeeds
ServerMarkAsRead(server, id) ==
    [server EXCEPT !.messages = WithRead(@, id), !.markedAsRead[id] = @ + 1]

\* Messaging: fetchData() up to its await, on page pagination.page of the
\* render that calls it
fetchData(o, page) == Append(o, [pc |-> "fetchData", page |-> page])

\* Messaging: the effect on [lastMessage, pagination.page], on the state m
LastMessageEffect(m) ==
    IF m.lastMessage = Null THEN m
    ELSE LET data == m.lastMessage IN
         IF data.type = "new_message"
         THEN LET m1 == IF m.pagination.page = 1
                        THEN [m EXCEPT
                                !.messages = <<data.message>> \o DropLast(@),
                                !.pagination.count = @ + 1]
                        ELSE [m EXCEPT !.pagination.count = @ + 1]
              IN IF ~data.message.is_read
                 THEN [m1 EXCEPT !.unreadCount = @ + 1]
                 ELSE m1
         ELSE IF data.type = "message_read"
         THEN [m EXCEPT !.messages = WithRead(@, data.message_id)]
         ELSE m

\* Messaging: pagination.page has become page: the effect on
\* [pagination.page, rowsPerPage, filters] calls fetchData, then the effect
\* on [lastMessage, pagination.page] runs again on the event it still holds
PageChanged(m, page) ==
    /\ messageServer.requests < MaxCalls
    /\ messaging' = LastMessageEffect([m EXCEPT !.pagination.page = page])
    /\ messageOps' = fetchData(messageOps, page)
    /\ messageServer' = Received(messageServer)

\* Messaging: the page buttons of TablePagination (newPage counts from 0)
handleChangePage(newPage) ==
    /\ messaging # Null
    /\ newPage + 1 # messaging.pagination.page
    /\ newPage * RowsPerPage < messaging.pagination.count
    /\ PageChanged(messaging, newPage + 1)
    /\ UNCHANGED studentMessages
    /\ UNCHANGED courseVars

\* Messaging: the requests of fetchData are answered; the response is set
\* with the page of the render that called fetchData
FetchDataResolved(i) ==
    /\ messaging # Null
    /\ i <= Len(messageOps)
    /\ messageOps[i].pc = "fetchData"
    /\ LET page == messageOps[i].page
           m == [messaging EXCEPT
                    !.messages = ServerPage(messageServer, page, RowsPerPage),
                    !.unreadCount = ServerUnread(messageServer),
                    !.pagination = [count |-> Len(messageServer.messages),
                                    page |-> page]]
       IN IF page = messaging.pagination.page
          THEN /\ messaging' = m
               /\ messageOps' = Without(messageOps, i)
               /\ UNCHANGED messageServer
          ELSE /\ messageServer.requests < MaxCalls
               /\ messaging' = LastMessageEffect(m)
               /\ messageOps' = fetchData(Without(messageOps, i), page)
               /\ messageServer' = Received(messageServer)
    /\ UNCHANGED studentMessages
    /\ UNCHANGED courseVars

\* Messaging: a request of fetchData fails; the catch block reports it
FetchDataRejected(i) ==
    /\ messaging # Null
    /\ i <= Len(messageOps)
    /\ messageOps[i].pc = "fetchData"
    /\ messageOps' = Without(messageOps, i)
    /\ UNCHANGED <<messaging, studentMessages, messageServer>>
    /\ UNCHANGED courseVars

\* the backend stores a new message for the user and pushes new_message;
\* Messaging receives it as lastMessage and its effect runs
NewMessagePush(isRead) ==
    /\ messageServer # Null
    /\ Len(messageServer.messages) < MaxMessages
    /\ LET message == [id |-> Len(messageServer.messages) + 1, is_read |-> isRead]
       IN /\ messageServer' = [messageServer EXCEPT !.messages = <<message>> \o @]
          /\ messaging' =
                IF messaging = Null THEN Null
                ELSE LastMessageEffect(
                        [messaging EXCEPT
                            !.lastMessage = [type |-> "new_message",
                                             message |-> message]])
    /\ UNCHANGED <<studentMessages, messageOps>>
    /\ UNCHANGED courseVars

\* the backend pushes message_read for a message it holds as read
MessageReadPush(id) ==
    /\ messaging # Null
    /\ \E j \in 1..Len(messageServer.messages) :
          /\ messageServer.messages[j].id = id
          /\ messageServer.messages[j].is_read
    /\ messaging' =
          LastMessageEffect(
             [messaging EXCEPT
                 !.lastMessage = [type |-> "message_read", message_id |-> id]])
    /\ UNCHANGED <<studentMessages, messageOps, messageServer>>
    /\ UNCHANGED courseVars

\* Messaging: handleMarkAsRead(id) up to its await
handleMarkAsRead(o, id) == Append(o, [pc |-> "markAsRead", id |-> id])

\* Messaging: a click on a message row or card
toggleExpandMessage(messageId) ==
    /\ messaging # Null
    /\ messageId \in DisplayedIds(messaging.messages)
    /\ messaging' =
          [messaging EXCEPT
              !.expandedMessage = IF @ = messageId THEN NoMessage ELSE messageId]
    /\ IF /\ messaging.expandedMessage # messageId
          /\ FoundUnread(messaging.messages, messageId)
       THEN /\ messageServer.requests < MaxCalls
            /\ messageOps' = handleMarkAsRead(messageOps, messageId)
            /\ messageServer' = Received(messageServer)
       ELSE UNCHANGED <<messageOps, messageServer>>
    /\ UNCHANGED studentMessages
    /\ UNCHANGED courseVars

\* StudentMessages: a click on a message
handleMessageClick(messageId) ==
    /\ studentMessages # Null
    /\ messageId \in DisplayedIds(studentMessages.messages)
    /\ studentMessages' =
          [studentMessages EXCEPT
              !.expandedMessage = IF @ = messageId THEN NoMessage ELSE messageId]
    /\ IF FoundUnread(studentMessages.messages, messageId)
       THEN /\ messageServer.requests < MaxCalls
            /\ messageOps' = handleMarkAsRead(messageOps, messageId)
            /\ messageServer' = Received(messageServer)
       ELSE UNCHANGED <<messageOps, messageServer>>
    /\ UNCHANGED messaging
    /\ UNCHANGED courseVars

\* the mark-as-read request of handleMarkAsRead (Messaging) or markAsRead
\* (StudentMessages) succeeds and the execution runs to its end
MarkAsReadResolved(i) ==
    /\ i <= Len(messageOps)
    /\ messageOps[i].pc = "markAsRead"
    /\ LET id == messageOps[i].id
       IN /\ messageServer' = ServerMarkAsRead(messageServer, id)
          /\ IF messaging # Null
             THEN /\ messaging' = [messaging EXCEPT
                                      !.messages = WithRead(@, id),
                                      !.unreadCount = @ - 1]
                  /\ UNCHANGED studentMessages
             ELSE /\ studentMessages' = [studentMessages EXCEPT
                                            !.messages = WithRead(@, id),
                                            !.unreadCount = @ - 1]
                  /\ UNCHANGED messaging
    /\ messageOps' = Without(messageOps, i)
    /\ UNCHANGED courseVars

\* the mark-as-read request fails; the catch block logs it
MarkAsReadRejected(i) ==
    /\ i <= Len(messageOps)
    /\ messageOps[i].pc = "markAsRead"
    /\ messageOps' = Without(messageOps, i)
    /\ UNCHANGED <<messaging, studentMessages, messageServer>>
    /\ UNCHANGED courseVars

\* StudentMessages: the requests of fetchMessages are answered
FetchMessagesResolved(i) ==
    /\ studentMessages # Null
    /\ i <= Len(messageOps)
    /\ messageOps[i].pc = "fetchMessages"
    /\ studentMessages' =
          [studentMessages EXCEPT
              !.messages = ServerPage(messageServer, 1, PageSize),
              !.unreadCount = ServerUnread(messageServer)]
    /\ messageOps' = Without(messageOps, i)
    /\ UNCHANGED <<messaging, messageServer>>
    /\ UNCHANGED courseVars

\* StudentMessages: the refresh button
fetchMessages ==
    /\ studentMessages # Null
    /\ messageServer.requests < MaxCalls
    /\ messageOps' = Append(messageOps, [pc |-> "fetchMessages"])
    /\ messageServer' = Received(messageServer)
    /\ UNCHANGED <<messaging, studentMessages>>
    /\ UNCHANGED courseVars

\* the messages the backend holds at mount: n messages, newest first, read
\* or unread
DrawnServerMessages(n) ==
    UNION {{[j \in 1..k |-> [id |-> k + 1 - j, is_read |-> f[j]]]
               : f \in [1..k -> BOOLEAN]} : k \in 0..n}

ServerAtMount(msgs) ==
    [messages |-> msgs, markedAsRead |-> [id \in MessageIds |-> 0], requests |-> 1]

\* a messaging screen has mounted and its first fetch is in flight
InitMessaging ==
    /\ filters = NoFilters
    /\ bookmarks = InitialBookmarks
    /\ filteredCourses = FilterPass(NoFilters, InitialBookmarks)
    /\ selectedCourse = Null
    /\ openCourseDialog = FALSE
    /\ selectedLesson = Null
    /\ selectedMedia = Null
    /\ selectedDocument = Null
    /\ courseProgress = 0
    /\ ops = <<>>
    /\ completeCalls = [l \in LessonIds |-> 0]
    /\ progressCalls = 0
    /\ tabsOpened = {}
    /\ now = FirstTime
    /\ inferIn = Lessons[1]
    /\ inferOut = ""
    /\ expandedModules = FALSE
    /\ isSidebarOpen = TRUE
    /\ youTubePlayer = Null
    /\ mediaPlayer = Null
    /\ documentViewer = Null
    /\ moduleIn = [id |-> 1]
    /\ moduleOut = NotCalled
    /\ \E msgs \in DrawnServerMessages(MaxMessages - 1) :
          messageServer = ServerAtMount(msgs)
    /\ \/ /\ messaging = [messages |-> <<>>, unreadCount |-> 0,
                          pagination |-> [count |-> 0, page |-> 1],
                          expandedMessage |-> NoMessage, lastMessage |-> Null]
          /\ studentMessages = Null
          /\ messageOps = <<[pc |-> "fetchData", page |-> 1]>>
       \/ /\ messaging = Null
          /\ studentMessages = [messages |-> <<>>, unreadCount |-> 0,
                                expandedMessage |-> NoMessage]
          /\ messageOps = <<[pc |-> "fetchMessages"]>>

NextMessaging ==
    \/ \E newPage \in 0..(MaxMessages - 1) : handleChangePage(newPage)
    \/ \E i \in 1..MaxCalls : FetchDataResolved(i)
    \/ \E i \in 1..MaxCalls : FetchDataRejected(i)
    \/ \E r \in BOOLEAN : NewMessagePush(r)
    \/ \E id \in MessageIds : MessageReadPush(id)
    \/ \E id \in MessageIds : toggleExpandMessage(id)
    \/ \E id \in MessageIds : handleMessageClick(id)
    \/ \E i \in 1..MaxCalls : MarkAsReadResolved(i)
    \/ \E i \in 1..MaxCalls : MarkAsReadRejected(i)
    \/ \E i \in 1..MaxCalls : FetchMessagesResolved(i)
    \/ fetchMessages

SpecMessaging == InitMessaging /\ [][NextMessaging]_vars

----------------------------------------------------------------------------
(* Properties of the selection-triggered completion (Spec) *)

CompletingTypes == {"pdf", "ppt", "doc", "link"}

\* a step of handleLessonSelect(l).  The first four conjuncts follow from the
\* action; they are stated first so that the steps of the other actions are
\* told apart without evaluating the resolver.
LessonSelectStep(l) ==
    /\ selectedLesson' # Null
    /\ selectedLesson'.id = l
    /\ progressCalls' = progressCalls
    /\ Len(ops') >= Len(ops)
    /\ handleLessonSelect(l)

C2_ProgressAfterComplete ==
    [][progressCalls' # progressCalls =>
         /\ progressCalls' = progressCalls + 1
         /\ \E i \in 1..Len(ops) :
               /\ ops[i].pc = "awaitComplete"
               /\ ops' = [ops EXCEPT ![i].pc = "awaitProgress"]]_vars

\* one execution waits for the progress while another one has failed on
\* complete-lesson without a progress request
C2_Witness ==
    /\ Started(completeCalls) = 2
    /\ progressCalls = 1
    /\ Len(ops) = 1
    /\ ops[1].pc = "awaitProgress"

\* the records of the displayed list for a course
CardsOf(list, courseId) == {i \in 1..Len(list) : list[i].courseId = courseId}

\* C4: re-selecting a lesson that has already been sent, with nothing in
\* flight, sends it again; every resolved complete-lesson is followed by one
\* progress request; and when the only execution in flight gets progress p,
\* the card of its course shows p.
C4_TwiceInSequence ==
    [][/\ \A l \in LessonIds :
            (completeCalls[l] >= 1 /\ ops = <<>> /\ LessonSelectStep(l)
                /\ DetectedTypes[l] \in CompletingTypes) =>
               (completeCalls'[l] = completeCalls[l] + 1 /\ Len(ops') = 1)
       /\ \A i \in 1..Len(ops) :
            CompleteLessonResolved(i) => progressCalls' = progressCalls + 1
       /\ \A i \in 1..Len(ops), p \in ProgressValues :
            (Len(ops) = 1 /\ GetCourseProgressResolved(i, p)) =>
               \A j \in CardsOf(filteredCourses', ops[i].course.courseId) :
                  filteredCourses'[j].progress = p]_vars

\* the same lesson was sent twice, both times followed by a progress fetch,
\* and the card shows the 100 of a response after having been at 0
C4_Witness ==
    /\ completeCalls[1] = 2
    /\ progressCalls = 2
    /\ ops = <<>>
    /\ \E j \in 1..Len(filteredCourses) :
          filteredCourses[j].courseId = 1 /\ filteredCourses[j].progress = 100

\* C5: a rejection of either request ends the execution without any new
\* request and leaves the dialog progress and the list as they were.
C5_FailureLeavesState ==
    [][\A i \in 1..Len(ops) :
         (CompleteLessonRejected(i) \/ GetCourseProgressRejected(i)) =>
            /\ ops' = Without(ops, i)
            /\ completeCalls' = completeCalls
            /\ progressCalls' = progressCalls
            /\ courseProgress' = courseProgress
            /\ filteredCourses' = filteredCourses
            /\ selectedCourse' = selectedCourse]_vars

\* of two executions one has succeeded with progress 100 and one has failed
\* on complete-lesson (it never fetched the progress): the dialog shows 100
C5_Witness ==
    /\ openCourseDialog
    /\ Started(completeCalls) = 2
    /\ progressCalls = 1
    /\ ops = <<>>
    /\ courseProgress = 100
    /\ selectedCourse.progress = 0

\* C3: when an execution gets progress p, every displayed record of its
\* course gets progress p; with p = 100 status completed and the completion
\* time now; else with p > 0 and no start time on the record, status
\* in_progress and the start time now; otherwise status and both times stay.
C3_ClaimRecordUpdate ==
    [][\A i \in 1..Len(ops), p \in ProgressValues :
         GetCourseProgressResolved(i, p) =>
            \A j \in CardsOf(filteredCourses, ops[i].course.courseId) :
               LET old == filteredCourses[j]
                   new == filteredCourses'[j]
               IN /\ new.progress = p
                  /\ IF p = 100
                     THEN new.status = "completed" /\ new.completed_at = now
                     ELSE IF p > 0 /\ old.started_at = NoTime
                     THEN new.status = "in_progress" /\ new.started_at = now
                     ELSE /\ new.status = old.status
                          /\ new.started_at = old.started_at
                          /\ new.completed_at = old.completed_at]_vars

\* C6: when an execution gets progress p while the whole list is displayed,
\* the card of its course shows p and the header stats count the displayed
\* courses by their status.
C6_ClaimStatsReflect ==
    [][\A i \in 1..Len(ops), p \in ProgressValues :
         (GetCourseProgressResolved(i, p) /\ filters.status = "all") =>
            /\ \A j \in CardsOf(filteredCourses', ops[i].course.courseId) :
                  filteredCourses'[j].progress = p
            /\ stats.inProgress = CountStatus(filteredCourses', "in_progress")
            /\ stats.completed = CountStatus(filteredCourses', "completed")
            /\ stats.notStarted = CountStatus(filteredCourses', "not_started")]_vars

----------------------------------------------------------------------------
(* Properties of the selection dispatch (SpecSelect) *)

HasNoContent(lesson) == lesson.content_url = <<>> /\ lesson.content_file = <<>>

\* C9: a handleLessonSelect step on a lesson without content URL and content
\* file resolves it to unknown, leaves selected media and selected document
\* empty, opens no tab and issues no request.
C9_NoContentNoAction ==
    [][\A l \in LessonIds :
         (handleLessonSelect(l) /\ HasNoContent(Lessons[l])) =>
            /\ selectedLesson'.detectedType = "unknown"
            /\ selectedMedia' = Null
            /\ selectedDocument' = Null
            /\ tabsOpened' = tabsOpened
            /\ completeCalls' = completeCalls
            /\ progressCalls' = progressCalls
            /\ ops' = ops]_vars

\* the lesson without content is selected, after a tab had been opened by
\* an earlier selection
C9_Witness ==
    /\ selectedLesson # Null
    /\ HasNoContent(selectedLesson)
    /\ selectedLesson.type = "video"
    /\ selectedMedia = Null
    /\ selectedDocument = Null
    /\ tabsOpened # {}

\* C10: selected media and selected document are never both set, and after a
\* handleLessonSelect step whatever is set is the content of that lesson.
C10_NeverBothSet ==
    /\ [](~(selectedMedia # Null /\ selectedDocument # Null))
    /\ [][\A l \in LessonIds :
            handleLessonSelect(l) =>
               /\ selectedMedia' # Null => selectedMedia'.url = ContentOf(Lessons[l])
               /\ selectedDocument' # Null =>
                     selectedDocument'.url = ContentOf(Lessons[l])]_vars

\* a video resource is shown over a selected pdf lesson: the document of
\* the lesson has been cleared
C10_Witness ==
    /\ selectedLesson # Null
    /\ selectedLesson.detectedType = "pdf"
    /\ selectedMedia # Null
    /\ selectedMedia.type = "video"
    /\ selectedDocument = Null

----------------------------------------------------------------------------
(* Properties of the resolver (SpecInfer) *)

\* the URL without its query string
UrlPath(u) == BeforeFirst(Expand(u), "?")

\* the extension as the procedure states it: what follows the last '.' of
\* the path (the whole path when it has no '.'), in lower case
PathExt(u) == ToLowerCase(AfterLast(UrlPath(u), "."))

RecognizedExts == {<<"pdf">>, <<"ppt">>, <<"pptx">>, <<"doc">>, <<"docx">>}

\* the six-step procedure, first match wins; a YouTube domain anywhere before
\* the query string is taken as a match of the host
SixSteps(lesson) ==
    LET url == LessonUrl(lesson)
        ext == PathExt(url)
    IN IF url = <<>> THEN "unknown"
       ELSE IF Includes(UrlPath(url), <<"youtube", ".", "com">>)
               \/ Includes(UrlPath(url), <<"youtu", ".", "be">>) THEN "youtube"
       ELSE IF ext = <<"pdf">> THEN "pdf"
       ELSE IF ext \in {<<"ppt">>, <<"pptx">>} THEN "ppt"
       ELSE IF ext \in {<<"doc">>, <<"docx">>} THEN "doc"
       ELSE IF lesson.type \notin {"", "unknown", "Unknown"} THEN lesson.type
       ELSE IF StartsWithHttp(Expand(url)) THEN "link"
       ELSE "unknown"

\* C7: for a lesson whose URL path ends in a recognizable extension, the
\* resolved type is the same whatever the declared type is.
C7_ClaimExtensionOnly ==
    (inferOut # "" /\ PathExt(LessonUrl(inferIn)) \in RecognizedExts) =>
        \A t \in DeclaredTypes :
            inferLessonType([inferIn EXCEPT !.type = t]) = inferOut

\* C8: the resolver returns what the six-step procedure returns.
C8_ClaimSixSteps ==
    inferOut # "" => inferOut = SixSteps(inferIn)

----------------------------------------------------------------------------
(* Properties of the YouTube lesson (SpecYouTube, SpecYouTubeFair) *)

\* a step of the interval or of onReady by which playedSeconds reaches the
\* duration
ReachesDuration ==
    /\ youTubePlayer # Null
    /\ ~ReachedDuration(youTubePlayer)
    /\ youTubePlayer' # Null
    /\ ReachedDuration(youTubePlayer')
    /\ selectedLesson' = selectedLesson

\* a dialog event with the YouTube lesson selected: the module is expanded
\* or collapsed, the sidebar is toggled, or a progress update is propagated
DialogEvent ==
    \/ toggleModule
    \/ \E open \in BOOLEAN : setIsSidebarOpen(open)
    \/ \E i \in 1..Len(ops), p \in ProgressValues : GetCourseProgressResolved(i, p)

\* C11: the step in which the played seconds of a YouTube lesson reach its
\* positive duration issues one complete-lesson request for the lesson, and
\* no dialog event after it, while the player stays mounted, issues another.
C11_ClaimCompletesOnce ==
    [][/\ ReachesDuration =>
            completeCalls' = [completeCalls EXCEPT ![selectedLesson.id] = @ + 1]
       /\ (youTubePlayer # Null /\ ReachedDuration(youTubePlayer) /\ DialogEvent) =>
            completeCalls' = completeCalls]_vars

\* C20: a YouTubePlayer that plays a video of positive duration either stops
\* playing (a pause, or its unmount) or gets its played seconds to the
\* duration.
C20_ClaimTimerReaches ==
    (youTubePlayer # Null /\ youTubePlayer.isPlaying /\ youTubePlayer.duration > 0)
        ~> (\/ youTubePlayer = Null
            \/ ~youTubePlayer.isPlaying
            \/ ReachedDuration(youTubePlayer))

----------------------------------------------------------------------------
(* Properties of the native video (SpecMedia) *)

\* C12: a MediaPlayer that shows its completed state has called its onEnded
\* prop.
C12_ClaimCompletedCalledOnEnded ==
    (mediaPlayer # Null /\ mediaPlayer.completed) => mediaPlayer.onEndedCalls >= 1

\* C13: a step that opens the MediaPlayer leaves it idle: position 0, not
\* playing, not completed.
C13_ReopenResets ==
    [][(mediaPlayer = Null /\ mediaPlayer' # Null) =>
          /\ mediaPlayer'.progress = 0
          /\ mediaPlayer'.currentTime = 0
          /\ ~mediaPlayer'.playing
          /\ ~mediaPlayer'.completed]_vars

\* the video lesson was played to its end by an earlier instance of the
\* player, and the player is open again on it, idle
C13_Witness ==
    /\ mediaPlayer # Null
    /\ selectedLesson.id = 5
    /\ mediaPlayer.src = ContentOf(Lessons[5])
    /\ completeCalls[5] >= 1
    /\ mediaPlayer.onEndedCalls = 0
    /\ mediaPlayer.progress = 0
    /\ ~mediaPlayer.playing
    /\ ~mediaPlayer.completed

\* the media shown is that of a resource, not of a lesson
ResourceMediaShown ==
    /\ selectedMedia # Null
    /\ \E r \in ResourceIds : selectedMedia.url = ContentOf(Resources[r])
    /\ \A l \in LessonIds : selectedMedia.url # ContentOf(Lessons[l])

\* a resource is selected, or the player acts on the media of a resource
ResourceStep ==
    \/ \E r \in ResourceIds : handleResourceSelect(Resources[r])
    \/ /\ ResourceMediaShown
       /\ \/ VideoTimeUpdate
          \/ handlePlayPause
          \/ Replay
          \/ \E d \in 1..MaxSeconds : handleLoadedMetadata(d)

\* C14: no selection of a resource and no step of the player on the media of
\* a resource issues a complete-lesson request.
C14_ClaimResourcesNeverComplete ==
    [][completeCalls' # completeCalls => ~ResourceStep]_vars

----------------------------------------------------------------------------
(* Properties of the displayed list *)

\* C15: every record of the displayed list with a completion timestamp has
\* status completed.
C15_ClaimCompletedAtMeansCompleted ==
    \A j \in 1..Len(filteredCourses) :
        filteredCourses[j].completed_at # NoTime =>
            filteredCourses[j].status = "completed"

\* a lesson of a displayed record of course c is completed: module m, lesson l
LessonCompleted(list, c, m, l) ==
    \E j \in 1..Len(list) :
        /\ list[j].courseId = c
        /\ m \in 1..Len(list[j].modules)
        /\ l \in 1..Len(list[j].modules[m].lessons)
        /\ list[j].modules[m].lessons[l].is_completed

\* a lesson of a displayed record of course c is not completed
LessonNotCompleted(list, c, m, l) ==
    \E j \in 1..Len(list) :
        /\ list[j].courseId = c
        /\ m \in 1..Len(list[j].modules)
        /\ l \in 1..Len(list[j].modules[m].lessons)
        /\ ~list[j].modules[m].lessons[l].is_completed

\* C19: no step that changes the displayed list or the record the dialog is
\* opened on turns the is_completed flag of a lesson from true to false,
\* neither in the list nor between the list and that record.
C19_IsCompletedMonotonic ==
    [][\A c \in 1..Len(Courses), m \in 1..2, l \in 1..2 :
         (/\ filteredCourses' # filteredCourses \/ selectedCourse' # selectedCourse
          /\ LessonCompleted(filteredCourses, c, m, l)) =>
            /\ ~LessonNotCompleted(filteredCourses', c, m, l)
            /\ selectedCourse' # Null =>
                  ~LessonNotCompleted(<<selectedCourse'>>, c, m, l)]_vars

\* the record of a course with a completed lesson has been patched by a
\* progress update and still shows the lesson completed, next to one not
\* completed
C19_Witness ==
    /\ progressCalls >= 1
    /\ \E j \in 1..Len(filteredCourses) :
          /\ filteredCourses[j].courseId = 1
          /\ filteredCourses[j].progress = 100
    /\ LessonCompleted(filteredCourses, 1, 1, 1)
    /\ LessonNotCompleted(filteredCourses, 1, 1, 2)

----------------------------------------------------------------------------
(* Properties of the module progress (SpecModule) *)

\* the lessons of a module with is_completed = true
CompletedCount(module) ==
    Cardinality({i \in 1..Len(module.lessons) :
                    /\ "is_completed" \in DOMAIN module.lessons[i]
                    /\ module.lessons[i].is_completed = TRUE})

\* r is an integer nearest to 100 * n / d
NearestPercent(r, n, d) ==
    /\ 2 * (100 * n - d * r) <= d
    /\ 2 * (d * r - 100 * n) <= d

\* C17: the module progress is 0 for a module without lessons, and otherwise
\* an integer nearest to the percentage of its lessons with is_completed =
\* true; the lessons [completed, not completed] give 50.
C17_ModuleProgressIsPercentage ==
    moduleOut # NotCalled =>
        /\ ("lessons" \notin DOMAIN moduleIn \/ Len(moduleIn.lessons) = 0) => moduleOut = 0
        /\ ("lessons" \in DOMAIN moduleIn /\ Len(moduleIn.lessons) > 0) =>
              NearestPercent(moduleOut, CompletedCount(moduleIn), Len(moduleIn.lessons))
        /\ ("lessons" \in DOMAIN moduleIn
              /\ moduleIn.lessons = << [id |-> 1, is_completed |-> TRUE],
                                       [id |-> 1, is_completed |-> FALSE] >>) =>
              moduleOut = 50

\* two of three lessons are completed, one of them without the flag: 67
C17_Witness ==
    /\ moduleOut = 67
    /\ "lessons" \in DOMAIN moduleIn
    /\ Len(moduleIn.lessons) = 3
    /\ \E i \in 1..3 : "is_completed" \notin DOMAIN moduleIn.lessons[i]

----------------------------------------------------------------------------
(* Properties of the course list (SpecList) *)

\* the title contains the term, letter case ignored
ContainsIgnoringCase(title, term) ==
    LET t == Chars(title)
        q == Chars(term)
    IN \E off \in 0..Len(t) :
          /\ off + Len(q) <= Len(t)
          /\ \A k \in 1..Len(q) : LowerTok(t[off + k]) = LowerTok(q[k])

\* the valid course i has the term in its title, a module title or a lesson
\* title
CourseHasTerm(i, term) ==
    /\ Courses[i].valid
    /\ \/ ContainsIgnoringCase(Courses[i].title, term)
       \/ \E m \in 1..Len(Courses[i].modules) :
             \/ ContainsIgnoringCase(Courses[i].modules[m].title, term)
             \/ \E l \in 1..Len(Courses[i].modules[m].lessons) :
                   ContainsIgnoringCase(Courses[i].modules[m].lessons[l].title, term)

SearchOnly == filters.search # "" /\ filters.status = "all" /\ filters.view = "all"

\* C18: with a search term and no other filter, the displayed list holds
\* exactly the valid courses with the term in their title, a module title or
\* a lesson title, letter case ignored, each once.
C18_SearchReturnsExactlyMatches ==
    SearchOnly =>
        /\ {filteredCourses[j].courseId : j \in 1..Len(filteredCourses)} =
              {Courses[i].id : i \in {n \in 1..Len(Courses) : CourseHasTerm(n, filters.search)}}
        /\ \A j1, j2 \in 1..Len(filteredCourses) :
              filteredCourses[j1].courseId = filteredCourses[j2].courseId => j1 = j2

\* "dna" finds Biology alone, by the title of its lesson "DNA"
C18_Witness ==
    /\ SearchOnly
    /\ filters.search = "dna"
    /\ Len(filteredCourses) = 1
    /\ filteredCourses[1].courseId = 1

----------------------------------------------------------------------------
(* Properties of the document viewer (SpecViewer) *)

\* the URL is a YouTube URL: a YouTube domain before its query string
ViewerUrlIsYouTube(u) ==
    \/ Includes(UrlPath(u), <<"youtube", ".", "com">>)
    \/ Includes(UrlPath(u), <<"youtu", ".", "be">>)

\* the percent-decoding of the tokens of an encoded URL
DecodeTok(t) ==
    CASE t = "https%3A%2F%2F" -> "http"
      [] t = "%3F" -> "?"
      [] t = "v%3D1" -> "v=1"
      [] t = "v%3D1.2" -> "v=1.2"
      [] t = "to%3Dyoutube.com" -> "to=youtube.com"
      [] OTHER -> t

\* src is the Office web viewer on the URL-encoded u
IsOfficeViewerOn(src, u) ==
    /\ Len(src) = Len(u) + 1
    /\ src[1] = "https://view.officeapps.live.com/op/embed.aspx?src="
    /\ \A i \in 1..Len(u) :
          /\ DecodeTok(src[i + 1]) = u[i]
          /\ src[i + 1] \notin {"http", "?", "v=1", "v=1.2", "to=youtube.com"}

ViewerHasDocument ==
    /\ documentViewer # Null
    /\ selectedDocument # Null
    /\ selectedDocument.url # <<>>
    /\ selectedDocument.type # ""

\* C16: for a document {url, type} in the open viewer the loading flag is
\* false; a YouTube URL gives an error and no iframe; otherwise pdf gives an
\* iframe on the URL, doc/docx/ppt/pptx an iframe on the Office web viewer
\* with the encoded URL, and any other type the error panel with a link to
\* the URL.
C16_ClaimViewerDispatch ==
    ViewerHasDocument =>
        LET url == selectedDocument.url
            type == selectedDocument.type
            v == renderViewer(documentViewer, selectedDocument)
        IN /\ ~documentViewer.loading
           /\ IF ViewerUrlIsYouTube(url)
              THEN documentViewer.error # "" /\ v.panel # "iframe"
              ELSE IF type = "pdf"
              THEN v.panel = "iframe" /\ v.src = url
              ELSE IF type \in {"doc", "docx", "ppt", "pptx"}
              THEN v.panel = "iframe" /\ IsOfficeViewerOn(v.src, url)
              ELSE v.panel = "error" /\ v.href = url

----------------------------------------------------------------------------
(* Properties of the list under progress updates (Spec) *)

\* the progress and the status of every displayed record are those of the
\* courses prop: completed with a completion time, else in_progress with a
\* progress above 0, else not_started
ShowsTheProp(list) ==
    \A j \in 1..Len(list) :
        \E i \in 1..Len(Courses) :
            /\ Courses[i].valid
            /\ Courses[i].id = list[j].courseId
            /\ list[j].progress = Courses[i].progress
            /\ list[j].status =
                  IF Courses[i].completed_at # NoTime THEN "completed"
                  ELSE IF Courses[i].progress > 0 THEN "in_progress"
                  ELSE "not_started"

\* C21: after a step that changes the filters or the bookmarks, the displayed
\* progress and status of every course are those derived from the courses
\* prop, whatever a completion update had patched into the list.
C21_FilterPassOverwritesPatch ==
    [][(filters' # filters \/ bookmarks' # bookmarks) => ShowsTheProp(filteredCourses')]_vars

\* a completion update is displayed and a filter can be changed
C21_Witness ==
    /\ ~openCourseDialog
    /\ progressCalls >= 1
    /\ \E j \in 1..Len(filteredCourses) :
          /\ filteredCourses[j].courseId = 1
          /\ filteredCourses[j].progress = 100
          /\ filteredCourses[j].status = "completed"

\* C22: a progress response that arrives when the dialog is closed is still
\* applied: every displayed record of the course of the execution gets the
\* returned progress, and status completed when it is 100.
C22_ResponseAfterCloseApplied ==
    [][\A i \in 1..Len(ops), p \in ProgressValues :
         (~openCourseDialog /\ Len(ops') < Len(ops) /\ progressCalls' = progressCalls
            /\ ops[i].pc = "awaitProgress" /\ GetCourseProgressResolved(i, p)) =>
            /\ CardsOf(filteredCourses', ops[i].course.courseId) =
                  CardsOf(filteredCourses, ops[i].course.courseId)
            /\ \A j \in CardsOf(filteredCourses', ops[i].course.courseId) :
                  /\ filteredCourses'[j].progress = p
                  /\ p = 100 => filteredCourses'[j].status = "completed"]_vars

\* the dialog is closed, the course is displayed with the progress of the
\* prop, and an execution of the closed dialog waits for its progress response
C22_Witness ==
    /\ ~openCourseDialog
    /\ \E i \in 1..Len(ops) :
          /\ ops[i].pc = "awaitProgress"
          /\ ~ops[i].live
          /\ \E j \in CardsOf(filteredCourses, ops[i].course.courseId) :
                filteredCourses[j].progress = 0

----------------------------------------------------------------------------
(* Properties of the lesson content area (SpecSelect) *)

\* the viewers the content area of the open dialog renders
ViewersRendered ==
    {v \in {"youtube", "media", "inline", "viewer"} :
        /\ openCourseDialog
        /\ \/ v = "youtube" /\ YouTubePlayerShown(selectedLesson, selectedMedia)
           \/ v = "media" /\ MediaPlayerShown(selectedLesson, selectedMedia)
           \/ v = "inline" /\ InlineDocumentShown(selectedLesson)
           \/ v = "viewer" /\ DocumentViewerShown(selectedLesson, selectedDocument)}

\* C23: at most one of the inline YouTube player, the modal MediaPlayer, the
\* inline document iframe and the modal DocumentViewer is rendered.
C23_ClaimOneViewer == Cardinality(ViewersRendered) <= 1

\* the start time of the displayed record j was set by a completion: the
\* courses prop has none for its course
StartSetByCompletion(j) ==
    /\ filteredCourses[j].started_at # NoTime
    /\ \E c \in 1..Len(Courses) :
          /\ Courses[c].id = filteredCourses[j].courseId
          /\ Courses[c].started_at = NoTime

\* C24: when an execution of the open dialog gets its progress, a start time
\* that a completion had set on a displayed record of its course is not
\* replaced by a newer time.
C24_ClaimStartKept ==
    [][\A i \in 1..Len(ops), p \in ProgressValues :
         (openCourseDialog /\ Len(ops') < Len(ops) /\ progressCalls' = progressCalls
            /\ ops[i].pc = "awaitProgress" /\ ops[i].live
            /\ GetCourseProgressResolved(i, p)) =>
            \A j \in CardsOf(filteredCourses, ops[i].course.courseId) :
               StartSetByCompletion(j) =>
                  filteredCourses'[j].started_at <= filteredCourses[j].started_at]_vars

----------------------------------------------------------------------------
(* Properties of executions in flight together (SpecRace) *)

\* two executions were started, for two lessons; the one of the lesson
\* selected last has got its progress, which the dialog shows, and the one
\* started first still waits for its own
EarlierStillWaits ==
    /\ openCourseDialog
    /\ selectedLesson # Null
    /\ Started(completeCalls) = 2
    /\ completeCalls[selectedLesson.id] = 1
    /\ progressCalls = 2
    /\ Len(ops) = 1
    /\ ops[1].lesson # selectedLesson.id
    /\ ops[1].pc = "awaitProgress"
    /\ ops[1].live

\* C25: of two executions in flight together, the progress returned to the
\* one started last is what the dialog shows when both have resolved: the
\* response to the one started first, arriving last, does not change it.
C25_ClaimLaterWins ==
    [][\A p \in ProgressValues :
         (EarlierStillWaits /\ GetCourseProgressResolved(1, p)) =>
            courseProgress' = courseProgress]_vars

----------------------------------------------------------------------------
(* Properties of the filtered list (Spec, SpecList) *)

\* C26: with a status filter other than 'all', every displayed course has
\* that status.
C26_ClaimStatusFilterHolds ==
    filters.status # "all" =>
        \A j \in 1..Len(filteredCourses) : filteredCourses[j].status = filters.status

\* the course is displayed and its card shows it bookmarked
ShownBookmarked(list, b, courseId) ==
    \E j \in CardsOf(list, courseId) : CardBookmarked(b, j)

Displayed(list, courseId) == CardsOf(list, courseId) # {}

\* C27: a step that toggles no bookmark leaves every course that stays
\* displayed shown as bookmarked or not as it was; a toggle on a card changes
\* that of the course of the card and of no other course.
C27_ClaimBookmarkFollowsCourse ==
    [][\A c \in 1..Len(Courses) :
         (Displayed(filteredCourses, c) /\ Displayed(filteredCourses', c)) =>
            /\ bookmarks' = bookmarks =>
                  (ShownBookmarked(filteredCourses', bookmarks', c)
                      <=> ShownBookmarked(filteredCourses, bookmarks, c))
            /\ \A index \in 1..Len(filteredCourses) :
                  (bookmarks' # bookmarks /\ handleBookmark(index)
                      /\ filteredCourses[index].courseId # c) =>
                     (ShownBookmarked(filteredCourses', bookmarks', c)
                         <=> ShownBookmarked(filteredCourses, bookmarks, c))]_vars


\* C28: the playing flag of the MediaPlayer is true exactly when its <video>
\* element is playing (the element is not paused).
C28_ClaimPlayingFlagAgrees ==
    mediaPlayer # Null => (mediaPlayer.playing <=> ~mediaPlayer.paused)


----------------------------------------------------------------------------
(* Properties of the messaging screens (SpecMessaging) *)

\* C29: on either messaging screen the unread counter never drops below
\* zero, and no message has more than one successful mark-as-read call (each
\* of which decrements the counter once).
C29_ClaimOneDecrementPerMessage ==
    messageServer # Null =>
        /\ messaging # Null => messaging.unreadCount >= 0
        /\ studentMessages # Null => studentMessages.unreadCount >= 0
        /\ \A id \in MessageIds : messageServer.markedAsRead[id] <= 1

\* C30: a new_message push received by Messaging on page 1 puts the new
\* message at the head of the displayed list and removes no displayed message
\* unless the page was full; on another page the displayed list is unchanged
\* and the total count goes up by one.
C30_ClaimNewMessagePlacement ==
    [][\A r \in BOOLEAN :
          (messaging # Null /\ NewMessagePush(r)) =>
              LET old == messaging.messages
                  new == messaging'.messages
              IN IF messaging.pagination.page = 1
                 THEN /\ new # <<>>
                      /\ new[1] = messaging'.lastMessage.message
                      /\ Len(old) < RowsPerPage =>
                            DisplayedIds(old) \subseteq DisplayedIds(new)
                 ELSE /\ new = old
                      /\ messaging'.pagination.count =
                            messaging.pagination.count + 1]_vars

====
